---- MODULE Spec2Model ----
(***************************************************************************)
(* Session lifecycle subsystem of mcp-sse-go: identifier generator,        *)
(* in-memory store, session manager and the HTTP session gate.             *)
(*                                                                         *)
(* Strings are sequences of one-character strings.  Time is a discrete     *)
(* clock (one tick = one second); durations are numbers of ticks.          *)
(* A *Session is a reference into heap; the store maps ids to references.  *)
(* Every store method runs under the store mutex and is one atomic step;   *)
(* reads of the clock and accesses to Session fields made outside the      *)
(* mutex are steps of their own.                                           *)
(***************************************************************************)
EXTENDS Integers, Sequences, FiniteSets, TLC

VARIABLES now, config, sessions, heap, randCount, active, proc, ret, hist,
          calls, svc, mcp

vars == <<now, config, sessions, heap, randCount, active, proc, ret, hist,
          calls, svc, mcp>>

(***************************************************************************)
(* Bounds                                                                  *)
(***************************************************************************)
MaxTime == 2
MaxSessions == 2
MaxTimeout == 1
MaxCalls == 4
MaxLoops == 2
MaxInterval == 2
MaxEvents == 3

\* callers of the manager, the gate and the cleanup service
Procs == {"p1", "p2"}

\* goroutines running CleanupService.run, in the order they are spawned
LoopNames == <<"l1", "l2", "l3">>
Loops == {LoopNames[i] : i \in 1..MaxLoops}

Threads == Procs \cup Loops

(***************************************************************************)
(* Identifier generator                                                    *)
(***************************************************************************)
SessionIDLength == 32
SessionIDPrefix == <<"s", "e", "s", "s">>

Digits == <<"0", "1", "2", "3", "4", "5", "6", "7", "8", "9">>

Base64URL ==
  <<"A", "B", "C", "D", "E", "F", "G", "H", "I", "J", "K", "L", "M",
    "N", "O", "P", "Q", "R", "S", "T", "U", "V", "W", "X", "Y", "Z",
    "a", "b", "c", "d", "e", "f", "g", "h", "i", "j", "k", "l", "m",
    "n", "o", "p", "q", "r", "s", "t", "u", "v", "w", "x", "y", "z",
    "0", "1", "2", "3", "4", "5", "6", "7", "8", "9", "-", "_">>

Range(s) == {s[i] : i \in 1..Len(s)}

\* base64.RawURLEncoding.EncodeToString: 3 bytes -> 4 characters, no padding
RECURSIVE EncodeToString(_)
EncodeToString(b) ==
  IF Len(b) = 0 THEN <<>>
  ELSE IF Len(b) = 1 THEN
    <<Base64URL[(b[1] \div 4) + 1], Base64URL[((b[1] % 4) * 16) + 1]>>
  ELSE IF Len(b) = 2 THEN
    LET n == b[1] * 256 + b[2]
    IN <<Base64URL[(n \div 1024) + 1], Base64URL[((n \div 16) % 64) + 1],
         Base64URL[((n % 16) * 4) + 1]>>
  ELSE
    LET n == b[1] * 65536 + b[2] * 256 + b[3]
    IN <<Base64URL[(n \div 262144) + 1], Base64URL[((n \div 4096) % 64) + 1],
         Base64URL[((n \div 64) % 64) + 1], Base64URL[(n % 64) + 1]>>
       \o EncodeToString(SubSeq(b, 4, Len(b)))

\* base64.RawURLEncoding.EncodedLen
EncodedLen(n) == (n * 8 + 5) \div 6

\* fmt.Sprintf("%d", n) for n >= 0
RECURSIVE FormatInt(_)
FormatInt(n) ==
  IF n < 10 THEN <<Digits[n + 1]>>
  ELSE FormatInt(n \div 10) \o <<Digits[(n % 10) + 1]>>

\* strings.Split(s, sep) for a one-character separator
RECURSIVE Split(_, _)
Split(s, sep) ==
  IF \A i \in 1..Len(s) : s[i] # sep THEN <<s>>
  ELSE LET k == CHOOSE i \in 1..Len(s) :
                  s[i] = sep /\ \A j \in 1..(i - 1) : s[j] # sep
       IN <<SubSeq(s, 1, k - 1)>> \o Split(SubSeq(s, k + 1, Len(s)), sep)

\* the 32 bytes rand.Read filled in, for the value whose big-endian number
\* is r (r < 65536: the two low bytes, the others zero)
RandomBytes(r) ==
  [i \in 1..SessionIDLength |->
     IF i = SessionIDLength THEN r % 256
     ELSE IF i = SessionIDLength - 1 THEN (r \div 256) % 256
     ELSE 0]

\* SessionIDGenerator.Generate when rand.Read delivered the value r at the
\* second unix: sess.<unix time>.<base64url(random)>
Generate(r, unix) ==
  SessionIDPrefix \o <<".">> \o FormatInt(unix) \o <<".">>
    \o EncodeToString(RandomBytes(r))

\* mutant of Validate: the length of the random part is not checked
ValidateAnyLength(sessionID) ==
  IF sessionID = <<>> THEN "SESSION_INVALID"
  ELSE LET parts == Split(sessionID, ".")
       IN IF Len(parts) # 3 THEN "SESSION_INVALID"
          ELSE IF parts[1] # SessionIDPrefix THEN "SESSION_INVALID"
          ELSE IF ~(Len(parts[2]) > 0 /\ Range(parts[2]) \subseteq Range(Digits))
            THEN "SESSION_INVALID"
          ELSE IF Len(parts[3]) = 0 THEN "SESSION_INVALID"
          ELSE IF ~(Range(parts[3]) \subseteq Range(Base64URL))
            THEN "SESSION_INVALID"
          ELSE "ok"

\* SessionIDGenerator.Validate: "ok" or the error code
Validate(sessionID) ==
  IF sessionID = <<>> THEN "SESSION_INVALID"
  ELSE LET parts == Split(sessionID, ".")
       IN IF Len(parts) # 3 THEN "SESSION_INVALID"
          ELSE IF parts[1] # SessionIDPrefix THEN "SESSION_INVALID"
          ELSE IF ~(Len(parts[2]) > 0 /\ Range(parts[2]) \subseteq Range(Digits))
            THEN "SESSION_INVALID"
          ELSE IF Len(parts[3]) = 0 THEN "SESSION_INVALID"
          ELSE IF ~(Range(parts[3]) \subseteq Range(Base64URL))
            THEN "SESSION_INVALID"
          ELSE IF Len(parts[3]) < EncodedLen(SessionIDLength)
            THEN "SESSION_INVALID"
          ELSE "ok"

(***************************************************************************)
(* Session records, errors, configuration                                  *)
(***************************************************************************)
ErrSessionNotFound == "SESSION_NOT_FOUND"
ErrSessionExpired == "SESSION_EXPIRED"
ErrSessionInvalid == "SESSION_INVALID"
ErrSessionStorage == "SESSION_STORAGE_ERROR"
ErrSessionGeneration == "SESSION_GENERATION_FAILED"

NoSession == [ID |-> <<>>, CreatedAt |-> 0, LastAccess |-> 0, ExpiresAt |-> 0,
              ClientInfo |-> "none"]

\* the ClientInfo a caller passes to CreateSession: its remote address
ClientInfoOf(p) == p

\* mutant of IsExpired: a session counts as expired at its expiry instant
IsExpiredAtExpiry(s, t) == t >= s.ExpiresAt

\* Session.IsExpired / the sweep's test: time.Now().After(s.ExpiresAt)
IsExpired(s, t) == t > s.ExpiresAt

\* The locals of one caller (goroutine).  When a call returns, the record
\* is copied to ret with the outcome in err, out, status and passed:
\*   pre   the stored session the call's Get returned
\*   seen  the ExpiresAt value the call's expiry check read, t its clock
\*   out   the session returned (for RefreshSession, which returns only an
\*         error: the stored session when the call returned)
\*   lrefs the sessions a List returned to the caller
\*   storeTotal  the store_total_sessions member of GetSessionStats
\*   for CreateSession: cnt the value rand.Read delivered, t the clock
\*   cur   inside List: the copy in progress, read as far as LastAccess
\*   todo  inside List: the ids the range loop has not visited yet
\* the JSON body of a rejection: whether it has a success member and its
\* value, the error object's code, and whether the error object has details
\* (message is always there); kind "none" when no rejection was written
NoBody == [kind |-> "none", hasSuccess |-> FALSE, success |-> FALSE,
           code |-> 0, hasDetails |-> FALSE]

Idle == [who |-> "none", op |-> "none", pc |-> "idle", id |-> <<>>,
         ref |-> 0, gref |-> 0, lrefs |-> {}, t |-> 0, phase |-> "none",
         snap |-> {},
         exp |-> {}, cnt |-> 0, pre |-> NoSession, seen |-> -1, prevT |-> -1,
         path |-> <<>>, method |-> "none",
         err |-> "none", out |-> NoSession, status |-> 0, passed |-> FALSE,
         body |-> NoBody, storeTotal |-> 0, cur |-> NoSession, todo |-> {}]

\* identifiers callers present besides the ones CreateSession handed out
UnknownID == Generate(65535, 0)
MalformedID == <<"i", "n", "v", "a", "l", "i", "d", "-", "i", "d">>
ShortID == <<"s", "e", "s", "s", ".", "1", ".", "a", "b", "c">>
ProbeIDs == {UnknownID, MalformedID, ShortID}

InputIDs == hist.created \cup ProbeIDs

\* DefaultMiddlewareConfig().ExcludedPaths
DefaultExcludedPaths ==
  {<<"/", "h", "e", "a", "l", "t", "h">>,
   <<"/", "c", "o", "n", "f", "i", "g">>,
   <<"/", "s", "t", "a", "t", "i", "c", "/">>,
   <<"/", ".", "m", "c", "p", "/", "i", "d", "e", "-", "c", "o", "n", "f", "i", "g">>,
   <<"/", "s", "e", "s", "s", "i", "o", "n", "s">>,
   <<"/", "s", "s", "e">>,
   <<"/", "m", "e", "t", "r", "i", "c", "s">>}

\* the exclusion list most integration tests configure: []string{"/sessions"}
TestExcludedPaths == {<<"/", "s", "e", "s", "s", "i", "o", "n", "s">>}

\* request paths and methods callers send
PathSse == <<"/", "s", "s", "e">>
PathProtected == <<"/", "p", "r", "o", "t", "e", "c", "t", "e", "d">>
Paths == {PathSse, PathProtected}
Methods == {"POST", "OPTIONS"}

(***************************************************************************)
(* MemoryStore: sessions maps an id to a *Session (an index into heap)     *)
(***************************************************************************)
StoreHas(id) == id \in DOMAIN sessions

\* mutant of StoreSet: an unsynchronised write that drops the other entries
StoreSetLosing(m, id, ref) == [x \in {id} |-> ref]

\* MemoryStore.Set: s.sessions[sessionID] = session
StoreSet(m, id, ref) ==
  [x \in (DOMAIN m) \cup {id} |-> IF x = id THEN ref ELSE m[x]]

\* MemoryStore.Delete: delete(s.sessions, sessionID)
StoreDelete(m, id) == [x \in (DOMAIN m) \ {id} |-> m[x]]

\* MemoryStore.List, the copy loop: under the read lock, for each stored
\* session in the map's (unspecified) order, sessionCopy := *session.  The
\* copy is not atomic: the fields are read one after the other (ID,
\* CreatedAt, LastAccess, ExpiresAt, ClientInfo), and Session.Refresh
\* writes LastAccess and then ExpiresAt without the lock.  StoreList(id) is
\* the copy of session id as far as LastAccess.
StoreList(id) == heap[sessions[id]]

\* the rest of the copy in progress: ExpiresAt is read later than
\* LastAccess, from the same stored session (the map cannot change while
\* the read lock is held); ClientInfo is never written after creation
ListReread(cur) ==
  [cur EXCEPT !.ExpiresAt = heap[sessions[cur.ID]].ExpiresAt]

\* the copies made so far, the one in progress completed
ListDone(rec) ==
  IF rec.cur = NoSession THEN rec.snap
  ELSE rec.snap \cup {ListReread(rec.cur)}

\* the sessions the range loop can visit first; <<>> when there is none
ListFirst == IF DOMAIN sessions = {} THEN {<<>>} ELSE DOMAIN sessions

\* List entered by the call rec: the read lock is taken and the first
\* session's copy is read as far as LastAccess
ListEnter(rec, id) ==
  [rec EXCEPT !.snap = {},
              !.cur = IF id \in DOMAIN sessions THEN StoreList(id)
                      ELSE NoSession,
              !.todo = (DOMAIN sessions) \ {id}]

\* the pcs at which a caller is inside List, holding the read lock
ListPcs == {"cl_list", "stats_list", "ls_list"}

\* s.mutex.Lock() succeeds only while no List holds the read lock
WriteLockFree == \A q \in DOMAIN proc : proc[q].pc \notin ListPcs

\* MemoryStore.Count
StoreCount == Cardinality(DOMAIN sessions)

\* the stored session of an id
Stored(id) == heap[sessions[id]]

(***************************************************************************)
(* CleanupService.  A channel is "open" or "closed"; mutex is "free" or    *)
(* the caller holding it; ctx is the context passed to Start.  Each        *)
(* goroutine running run() has its ticker: period, the time next of the    *)
(* next tick and the buffered channel ticker.C (tickC ticks waiting).      *)
(* fired is the time of the ticker's last tick, sinceSet the number of     *)
(* ticks since the last SetInterval.  The clock value MaxTime stands for   *)
(* every later time: there a ticker whose tick lies beyond it may fire.    *)
(***************************************************************************)
NoLoop == [pc |-> "none", period |-> 0, next |-> 0, tickC |-> 0,
           fired |-> -1, sinceSet |-> 0]

NewCleanupService(interval) ==
  [running |-> FALSE, interval |-> interval, stopCh |-> "open",
   stoppedCh |-> "open", mutex |-> "free", ctx |-> "live",
   panicked |-> FALSE, spawned |-> 0, loop |-> [l \in Loops |-> NoLoop]]

\* the goroutines inside run()
LiveLoops == {l \in Loops : svc.loop[l].pc \in {"new", "select", "sweep"}}

\* a ticker whose tick time has come
TickerDue(l) ==
  svc.loop[l].pc \in {"select", "sweep"} /\ svc.loop[l].next <= now

(***************************************************************************)
(* MCP dispatcher: tools.Registry, jsonrpc envelopes and mcp.Handler.      *)
(* Two versions of the handler are in the source tree (part_003 and        *)
(* part_004); the field mcp.version says which one is running.             *)
(***************************************************************************)
\* jsonrpc error codes
ParseError == -32700
InvalidRequest == -32600
MethodNotFound == -32601
InvalidParams == -32602
InternalError == -32603

Versions == {"part_003", "part_004"}
ToolNames == {"weather", "echo"}
UnknownTool == "nosuch"
\* the tools a server registers (tools.NewDefaultTool, weather.NewWeatherTool)
Tools == {[name |-> n] : n \in ToolNames}
\* request ids; NoID is Go's nil interface (no id member in the JSON)
NoID == "nil"
RequestIDs == {"1", "2"}
RpcMethods == {"initialize", "tools/list", "tools/call", "tools/execute",
               "resources/list"}
HttpMethods == {"GET", "POST", "OPTIONS"}
SSE == "text/event-stream"
JSON == "application/json"
AcceptValues == {JSON, SSE, "application/json, text/event-stream"}
ContentTypes == {JSON, "text/plain"}
\* error messages a registered tool's Call returns (weather.go); "" is success
ToolFailures == {"city is required"}

\* strings.Contains(r.Header.Get("Accept"), "text/event-stream")
AcceptsSSE(accept) == accept \in {SSE, "application/json, text/event-stream"}

\* all iteration orders of a Go map with key set S
Orders(S) ==
  {s \in [1..Cardinality(S) -> S] :
     \A i, j \in 1..Cardinality(S) : i # j => s[i] # s[j]}

\* jsonrpc.Response; id = NoID, result = "" and error = FALSE are the members
\* that omitempty leaves out
NoEnvelope == [id |-> NoID, error |-> FALSE, code |-> 0, message |-> "",
               data |-> "", result |-> "", tools |-> <<>>]

\* what Handle has written when it returns: kind "text" is http.Error,
\* "json" a JSON body, "sse" a `data:` event, "empty" headers only
NoResponse == [status |-> 0, kind |-> "none", text |-> "", env |-> NoEnvelope,
               invoked |-> ""]

\* a request as Handle meets it: readable is whether io.ReadAll(r.Body)
\* succeeds, canFlush whether the ResponseWriter is an http.Flusher
NoRequest == [http |-> "", accept |-> "", ctype |-> "", wellformed |-> FALSE,
              id |-> NoID, method |-> "",
              params |-> [wellformed |-> FALSE, name |-> ""],
              readable |-> TRUE, canFlush |-> TRUE]

NoStream == [pc |-> "none", cancelled |-> FALSE, fired |-> FALSE,
             events |-> <<>>]

\* a request Handle is serving: what it read and the answer it will write
NoPending == [busy |-> FALSE, req |-> NoRequest, toolsAt |-> <<>>,
              outcome |-> "", resp |-> NoResponse]

NoHandler == [version |-> "none", tools |-> <<>>, toolsAt |-> <<>>,
              outcome |-> "", req |-> NoRequest, resp |-> NoResponse,
              stream |-> NoStream, pending |-> NoPending]

\* tools.NewRegistry and mcp.NewHandler
NewHandler(version) == [NoHandler EXCEPT !.version = version]

(***************************************************************************)
(* Initial state                                                           *)
(***************************************************************************)
InitCommon ==
  /\ now = 0
  /\ sessions = <<>>
  /\ heap = <<>>
  /\ randCount = 0
  /\ proc = [p \in Threads |-> Idle]
  /\ ret = Idle
  /\ calls = 0
  /\ hist = [created |-> {}, nCreated |-> 0, draws |-> {}, refreshed |-> {},
             removed |-> {}, deleted |-> {}]

\* parallel callers, the server's middleware configuration
Init ==
  /\ InitCommon
  /\ active = Procs
  /\ config \in [SessionTimeout : 1..MaxTimeout, RequireSession : {TRUE},
                 ExcludedPaths : {DefaultExcludedPaths}]
  /\ svc = NewCleanupService(1)
  /\ mcp = NoHandler

\* one caller at a time, every configuration
InitSeq ==
  /\ InitCommon
  /\ active = {"p1"}
  /\ config \in [SessionTimeout : 1..MaxTimeout, RequireSession : BOOLEAN,
                 ExcludedPaths : {DefaultExcludedPaths, TestExcludedPaths}]
  /\ svc = NewCleanupService(1)
  /\ mcp = NoHandler

(***************************************************************************)
(* Steps.  Each step operator takes the caller p and its locals rec, so    *)
(* that a call made from idle performs the first step of the operation.    *)
(***************************************************************************)
\* One step of caller p: rec are its locals after the step (pc = "idle"
\* when the call returned), S the store's map and H the heap after it.
\* calls counts the calls callers made: a run makes at most MaxCalls.
\* A Session object no reference leads to any more is garbage.
Step(p, rec, S, H) ==
  LET P2 == [proc EXCEPT ![p] = IF rec.pc = "idle" THEN Idle ELSE rec]
      live == {S[i] : i \in DOMAIN S} \cup {P2[q].ref : q \in Threads}
                \cup {P2[q].gref : q \in Threads}
                \cup UNION {P2[q].lrefs : q \in Threads}
  IN /\ proc' = P2
     /\ ret' = IF rec.pc = "idle" THEN [rec EXCEPT !.who = p] ELSE ret
     /\ sessions' = S
     /\ calls' = IF proc[p].pc = "idle" /\ p \in Procs THEN calls + 1
                ELSE calls
     /\ heap' = [r \in DOMAIN H |-> IF r \in live THEN H[r] ELSE NoSession]

\* a finished call: keep what the call observed, set the outcome
Done(rec, err, out) ==
  [rec EXCEPT !.pc = "idle", !.ref = 0, !.gref = 0, !.lrefs = {},
              !.phase = "none",
              !.exp = {}, !.err = err, !.out = out]

\* the clock advances; a ticker fires at its tick time, not later
Tick ==
  /\ now < MaxTime
  /\ \A l \in Loops : ~TickerDue(l)
  /\ now' = now + 1
  /\ UNCHANGED <<mcp, config, sessions, heap, randCount, active, proc, ret, hist,
                 calls, svc>>

---------------------------------------------------------------------------
\* the values rand.Read may deliver: any, repeats included
AnyDraw == 1..MaxSessions

\* a value rand.Read has not delivered before (up to renaming, the next
\* number): 256-bit draws taken not to repeat
FreshDraw == {randCount + 1}

\* CreateSession, part 1: m.generator.Generate(); now := time.Now();
\* session := &Session{...}.  ok is whether rand.Read succeeded and r the
\* value it delivered; when it failed, Generate returns a
\* SessionGenerationError and CreateSession returns it with no session.
\* The clock readings of Generate and of CreateSession fall into the same
\* tick.  randCount counts the values delivered.
CreateGenerate(p, ok, r) ==
  /\ proc[p].pc = "idle"
  /\ calls < MaxCalls
  /\ IF ~ok
       THEN /\ Step(p, Done([Idle EXCEPT !.op = "Create", !.t = now],
                            ErrSessionGeneration, NoSession),
                    sessions, heap)
            /\ UNCHANGED randCount
       ELSE /\ randCount < MaxSessions
            /\ randCount' = randCount + 1
            /\ LET id == Generate(r, now)
               IN Step(p, [Idle EXCEPT !.op = "Create", !.pc = "create_set",
                                       !.id = id, !.ref = Len(heap) + 1,
                                       !.cnt = r, !.t = now],
                       sessions,
                       Append(heap,
                              [ID |-> id, CreatedAt |-> now,
                               LastAccess |-> now,
                               ExpiresAt |-> now + config.SessionTimeout,
                               ClientInfo |-> ClientInfoOf(p)]))
  /\ UNCHANGED <<mcp, svc, now, config, active, hist>>

\* CreateSession, part 2: m.store.Set(ctx, sessionID, session); return
CreateSet(p) ==
  /\ proc[p].pc = "create_set"
  /\ WriteLockFree
  /\ Step(p, Done(proc[p], "ok", heap[proc[p].ref]),
          StoreSet(sessions, proc[p].id, proc[p].ref), heap)
  /\ hist' = [hist EXCEPT !.created = @ \cup {proc[p].id},
                          !.nCreated = @ + 1,
                          !.draws = @ \cup {<<proc[p].cnt, proc[p].t>>}]
  /\ UNCHANGED <<mcp, svc, now, config, randCount, active>>

---------------------------------------------------------------------------
StatusOK == 200
StatusBadRequest == 400
StatusUnauthorized == 401
StatusNotFound == 404
StatusMethodNotAllowed == 405
StatusInternalServerError == 500

\* SessionMiddleware.sendError: {"error": {message, code, details?}}
MiddlewareSendError(statusCode, details) ==
  [kind |-> "error", hasSuccess |-> FALSE, success |-> FALSE,
   code |-> statusCode, hasDetails |-> details]

\* SessionHandler.sendError:
\* {"success": false, "error": {message, code, details?}}
SessionHandlerSendError(statusCode, details) ==
  [kind |-> "error", hasSuccess |-> TRUE, success |-> FALSE,
   code |-> statusCode, hasDetails |-> details]

\* the status SessionHandler.GetSession picks for a ValidateSession error
SessionHandlerStatus(err) ==
  IF err = ErrSessionInvalid THEN StatusBadRequest
  ELSE IF err \in {ErrSessionNotFound, ErrSessionExpired} THEN StatusNotFound
  ELSE StatusUnauthorized

\* mutant of GateStatus: the error's code is not looked at
GateStatusDefault(err) == StatusUnauthorized

\* SessionMiddleware.Handler, the status for the error ValidateSession
\* returned: statusCode starts as 401 and the switch on the code runs only
\* for a *SessionError ("error" stands for an error of another type)
GateStatus(err) ==
  IF err = "error" THEN StatusUnauthorized
  ELSE IF err = ErrSessionInvalid THEN StatusBadRequest
  ELSE IF err \in {ErrSessionNotFound, ErrSessionExpired} THEN StatusUnauthorized
  ELSE StatusInternalServerError

\* m.sendError(w, statusCode, ...); return: the next handler is not invoked
GateReject(rec, status, err) ==
  [Done(rec, err, NoSession) EXCEPT !.status = status, !.passed = FALSE,
                                    !.body = MiddlewareSendError(status, TRUE)]

\* SessionHandler.GetSession after ValidateSession returned err
GetSessionResult(rec, err, hp) ==
  IF err = "ok"
    THEN [Done(rec, err, hp[rec.ref]) EXCEPT !.status = StatusOK,
                                             !.passed = TRUE]
    ELSE [Done(rec, err, NoSession)
            EXCEPT !.status = SessionHandlerStatus(err), !.passed = FALSE,
                   !.body = SessionHandlerSendError(SessionHandlerStatus(err),
                                                    TRUE)]

\* next.ServeHTTP(w, r): the next handler runs with the session the first
\* validation returned (rec.gref, 0 when none) in its context and answers 200
GatePass(rec, hp) ==
  [Done(rec, "ok", IF rec.gref = 0 THEN NoSession ELSE hp[rec.gref])
     EXCEPT !.status = StatusOK, !.passed = TRUE]

\* mutant of ValidateResult: a failed refresh in the gate rejects the request
ValidateResultStrict(rec, err, hp) ==
  IF rec.op = "WrapDelete"
    THEN [rec EXCEPT !.pc = "wd_del", !.ref = 0, !.err = err]
  ELSE IF rec.op = "GetSession" THEN GetSessionResult(rec, err, hp)
  ELSE IF rec.op = "Validate"
    THEN Done(rec, err, IF err = "ok" THEN hp[rec.ref] ELSE NoSession)
  ELSE IF rec.op = "Refresh"
    THEN IF err = "ok" THEN [rec EXCEPT !.pc = "ref_now"]
         ELSE Done(rec, err, NoSession)
  ELSE IF err = "ok"
    THEN IF rec.phase = "validate"
           THEN [rec EXCEPT !.phase = "refresh", !.gref = rec.ref,
                            !.pc = "val_get"]
         ELSE [rec EXCEPT !.pc = "ref_now"]
  ELSE GateReject(rec, GateStatus(err), err)

\* where a caller goes when the ValidateSession it runs returns err
ValidateResult(rec, err, hp) ==
  IF rec.op = "WrapDelete"
    THEN [rec EXCEPT !.pc = "wd_del", !.ref = 0, !.err = err]
  ELSE IF rec.op = "GetSession" THEN GetSessionResult(rec, err, hp)
  ELSE IF rec.op = "Validate"
    THEN Done(rec, err, IF err = "ok" THEN hp[rec.ref] ELSE NoSession)
  ELSE IF rec.op = "Refresh"
    THEN IF err = "ok" THEN [rec EXCEPT !.pc = "ref_now"]
         ELSE Done(rec, err, NoSession)
  ELSE IF rec.phase = "validate"
    THEN IF err = "ok"
           THEN [rec EXCEPT !.phase = "refresh", !.gref = rec.ref,
                            !.pc = "val_get"]
         ELSE GateReject(rec, GateStatus(err), err)
  ELSE IF err = "ok" THEN [rec EXCEPT !.pc = "ref_now"]
       ELSE GatePass(rec, hp)

\* mutant of ValGetStep: the store is consulted before the format check
ValGetStepStoreFirst(p, rec) ==
  /\ IF ~StoreHas(rec.id)
       THEN Step(p, ValidateResult(rec, ErrSessionNotFound, heap),
                 sessions, heap)
     ELSE IF Validate(rec.id) # "ok"
       THEN Step(p, ValidateResult(rec, Validate(rec.id), heap),
                 sessions, heap)
     ELSE Step(p, [rec EXCEPT !.pc = "val_exp", !.ref = sessions[rec.id],
                              !.pre = Stored(rec.id)],
               sessions, heap)
  /\ UNCHANGED <<mcp, svc, now, config, randCount, active, hist>>

\* ValidateSession, part 1: m.generator.Validate(id), then m.store.Get(id)
ValGetStep(p, rec) ==
  /\ IF Validate(rec.id) # "ok"
       THEN Step(p, ValidateResult(rec, Validate(rec.id), heap),
                 sessions, heap)
     ELSE IF ~StoreHas(rec.id)
       THEN Step(p, ValidateResult(rec, ErrSessionNotFound, heap),
                 sessions, heap)
     ELSE Step(p, [rec EXCEPT !.pc = "val_exp", !.ref = sessions[rec.id],
                              !.pre = Stored(rec.id)],
               sessions, heap)
  /\ UNCHANGED <<mcp, svc, now, config, randCount, active, hist>>

ValGet(p) == proc[p].pc = "val_get" /\ ValGetStep(p, proc[p])

\* ValidateSession, part 2: session.IsExpired() reads the clock and the
\* ExpiresAt field of the stored object
ValExpired(p) ==
  /\ proc[p].pc = "val_exp"
  /\ LET rec == [proc[p] EXCEPT !.t = now,
                                !.seen = heap[proc[p].ref].ExpiresAt]
     IN IF IsExpired(heap[proc[p].ref], now)
          THEN Step(p, [rec EXCEPT !.pc = "val_del"], sessions, heap)
        ELSE Step(p, ValidateResult(rec, "ok", heap), sessions, heap)
  /\ UNCHANGED <<mcp, svc, now, config, randCount, active, hist>>

\* mutant of ValDelete: the expired entry is left in the store
ValDeleteKeeping(p) ==
  /\ proc[p].pc = "val_del"
  /\ WriteLockFree
  /\ Step(p, ValidateResult(proc[p], ErrSessionExpired, heap), sessions, heap)
  /\ UNCHANGED <<mcp, svc, now, config, randCount, active, hist>>

\* ValidateSession, part 3: m.store.Delete(id), its error only logged;
\* return SESSION_EXPIRED
ValDelete(p) ==
  /\ proc[p].pc = "val_del"
  /\ WriteLockFree
  /\ Step(p, ValidateResult(proc[p], ErrSessionExpired, heap),
          StoreDelete(sessions, proc[p].id), heap)
  /\ hist' = IF StoreHas(proc[p].id)
               THEN [hist EXCEPT !.removed = @ \cup {proc[p].id}]
             ELSE hist
  /\ UNCHANGED <<mcp, svc, now, config, randCount, active>>

\* a caller invokes ValidateSession(id)
CallValidate(p, id) ==
  /\ proc[p].pc = "idle"
  /\ calls < MaxCalls
  /\ ValGetStep(p, [Idle EXCEPT !.op = "Validate", !.id = id])

---------------------------------------------------------------------------
\* a caller invokes RefreshSession(id), which starts with ValidateSession
CallRefresh(p, id) ==
  /\ proc[p].pc = "idle"
  /\ calls < MaxCalls
  /\ ValGetStep(p, [Idle EXCEPT !.op = "Refresh", !.id = id])

\* Session.Refresh: now := time.Now()
RefreshNow(p) ==
  /\ proc[p].pc = "ref_now"
  /\ Step(p, [proc[p] EXCEPT !.pc = "ref_la", !.t = now], sessions, heap)
  /\ UNCHANGED <<mcp, svc, now, config, randCount, active, hist>>

\* Session.Refresh: s.LastAccess = now, on the object the store holds
RefreshLastAccess(p) ==
  /\ proc[p].pc = "ref_la"
  /\ Step(p, [proc[p] EXCEPT !.pc = "ref_ea"], sessions,
          [heap EXCEPT ![proc[p].ref].LastAccess = proc[p].t])
  /\ hist' = [hist EXCEPT !.refreshed = @ \cup {proc[p].id}]
  /\ UNCHANGED <<mcp, svc, now, config, randCount, active>>

\* Session.Refresh: s.ExpiresAt = now.Add(timeout)
RefreshExpiresAt(p) ==
  /\ proc[p].pc = "ref_ea"
  /\ Step(p, [proc[p] EXCEPT !.pc = "ref_set"], sessions,
          [heap EXCEPT ![proc[p].ref].ExpiresAt =
                          proc[p].t + config.SessionTimeout])
  /\ UNCHANGED <<mcp, svc, now, config, randCount, active, hist>>

\* RefreshSession: m.store.Set(ctx, sessionID, session); return nil
RefreshSet(p) ==
  /\ proc[p].pc = "ref_set"
  /\ WriteLockFree
  /\ Step(p, IF proc[p].op = "Refresh"
               THEN Done(proc[p], "ok", heap[proc[p].ref])
             ELSE GatePass(proc[p], heap),
          StoreSet(sessions, proc[p].id, proc[p].ref), heap)
  /\ UNCHANGED <<mcp, svc, now, config, randCount, active, hist>>

---------------------------------------------------------------------------
\* DeleteSession(id): m.store.Delete(ctx, sessionID)
DeleteSession(p, id) ==
  /\ proc[p].pc = "idle"
  /\ calls < MaxCalls
  /\ WriteLockFree
  /\ Step(p, Done([Idle EXCEPT !.op = "Delete", !.id = id],
                  IF StoreHas(id) THEN "ok" ELSE ErrSessionNotFound,
                  NoSession),
          StoreDelete(sessions, id), heap)
  /\ hist' = IF StoreHas(id)
               THEN [hist EXCEPT !.removed = @ \cup {id},
                                 !.deleted = @ \cup {id}]
             ELSE hist
  /\ UNCHANGED <<mcp, svc, now, config, randCount, active>>

---------------------------------------------------------------------------
\* CleanupExpiredSessions, part 1: m.store.List(ctx).  prevT is the sweep
\* time of the previous call when that call was a sweep of this caller.
CleanupList(p) ==
  /\ proc[p].pc = "idle"
  /\ calls < MaxCalls
  /\ \E first \in ListFirst :
       Step(p, ListEnter([Idle EXCEPT !.op = "Cleanup", !.pc = "cl_list",
                            !.prevT = IF ret.op = "Cleanup" /\ ret.who = p
                                      THEN ret.t ELSE -1],
                         first),
            sessions, heap)
  /\ UNCHANGED <<mcp, svc, now, config, randCount, active, hist>>

\* List, the range loop goes on to the next session: the copy in progress
\* is completed and appended, and the next one is read as far as LastAccess
ListStep(p) ==
  /\ proc[p].pc \in ListPcs
  /\ \E id \in proc[p].todo :
       Step(p, [proc[p] EXCEPT !.snap = ListDone(proc[p]),
                               !.cur = StoreList(id),
                               !.todo = @ \ {id}],
            sessions, heap)
  /\ UNCHANGED <<mcp, svc, now, config, randCount, active, hist>>

\* m.store.List returns to the manager: the last copy is completed and the
\* read lock is released
ListUnlock(p) ==
  /\ proc[p].pc \in {"cl_list", "stats_list"}
  /\ proc[p].todo = {}
  /\ Step(p, [proc[p] EXCEPT
                !.pc = IF proc[p].pc = "cl_list" THEN "cl_now"
                       ELSE "stats_now",
                !.snap = ListDone(proc[p]),
                !.cur = NoSession],
          sessions, heap)
  /\ UNCHANGED <<mcp, svc, now, config, randCount, active, hist>>

\* mutant of CleanupNow: every listed session is taken to be expired
CleanupNowAll(p) ==
  /\ proc[p].pc = "cl_now"
  /\ LET expired == {s.ID : s \in proc[p].snap}
         rec == [proc[p] EXCEPT !.t = now, !.exp = expired]
     IN IF expired = {} THEN Step(p, Done(rec, "ok", NoSession), sessions, heap)
        ELSE Step(p, [rec EXCEPT !.pc = "cl_del"], sessions, heap)
  /\ UNCHANGED <<mcp, svc, now, config, randCount, active, hist>>

\* CleanupExpiredSessions, part 2: now := time.Now(); collect the ids of
\* the listed sessions with now.After(session.ExpiresAt)
CleanupNow(p) ==
  /\ proc[p].pc = "cl_now"
  /\ LET expired == {s.ID : s \in {x \in proc[p].snap : IsExpired(x, now)}}
         rec == [proc[p] EXCEPT !.t = now, !.exp = expired]
     IN IF expired = {} THEN Step(p, Done(rec, "ok", NoSession), sessions, heap)
        ELSE Step(p, [rec EXCEPT !.pc = "cl_del"], sessions, heap)
  /\ UNCHANGED <<mcp, svc, now, config, randCount, active, hist>>

\* mutant of CleanupDelete: a failed Delete is counted as well
CleanupDeleteCountAll(p, id) ==
  /\ proc[p].pc = "cl_del"
  /\ WriteLockFree
  /\ id \in proc[p].exp
  /\ LET rec == [proc[p] EXCEPT !.exp = @ \ {id}, !.cnt = @ + 1]
     IN Step(p, IF rec.exp = {} THEN Done(rec, "ok", NoSession) ELSE rec,
             StoreDelete(sessions, id), heap)
  /\ hist' = IF StoreHas(id) THEN [hist EXCEPT !.removed = @ \cup {id}]
             ELSE hist
  /\ UNCHANGED <<mcp, svc, now, config, randCount, active>>

\* CleanupExpiredSessions, part 3: one iteration of the deletion loop
\* (the listing order is the map's iteration order: any); a failed Delete
\* is skipped; after the last one return deletedCount
CleanupDelete(p, id) ==
  /\ proc[p].pc = "cl_del"
  /\ WriteLockFree
  /\ id \in proc[p].exp
  /\ LET rec == [proc[p] EXCEPT !.exp = @ \ {id},
                   !.cnt = IF StoreHas(id) THEN @ + 1 ELSE @]
     IN Step(p, IF rec.exp = {} THEN Done(rec, "ok", NoSession) ELSE rec,
             StoreDelete(sessions, id), heap)
  /\ hist' = IF StoreHas(id) THEN [hist EXCEPT !.removed = @ \cup {id}]
             ELSE hist
  /\ UNCHANGED <<mcp, svc, now, config, randCount, active>>

---------------------------------------------------------------------------
\* strings.HasPrefix
HasPrefix(str, prefix) ==
  Len(str) >= Len(prefix) /\ SubSeq(str, 1, Len(prefix)) = prefix

\* SessionMiddleware.isPathExcluded
isPathExcluded(path) == \E e \in config.ExcludedPaths : HasPrefix(path, e)

\* SessionMiddleware.Handler up to the call of ValidateSession (whose
\* first step runs at once); header <<>> is an absent header
GateCall(p, path, method, header) ==
  /\ proc[p].pc = "idle"
  /\ calls < MaxCalls
  /\ LET rec == [Idle EXCEPT !.op = "Gate", !.path = path, !.method = method]
     IN IF isPathExcluded(path) \/ method = "OPTIONS"
          THEN /\ Step(p, GatePass(rec, heap), sessions, heap)
               /\ UNCHANGED <<mcp, svc, now, config, randCount, active, hist>>
        ELSE IF header = <<>>
          THEN /\ IF config.RequireSession
                    THEN Step(p, GateReject(rec, StatusBadRequest, "missing"),
                              sessions, heap)
                  ELSE Step(p, GatePass(rec, heap), sessions, heap)
               /\ UNCHANGED <<mcp, svc, now, config, randCount, active, hist>>
        ELSE ValGetStep(p, [rec EXCEPT !.id = header, !.phase = "validate"])

\* SessionHandler.GetSession (GET /sessions/status) up to the call of
\* ValidateSession; header <<>> is an absent Mcp-Session-Id header
GetSession(p, method, header) ==
  /\ proc[p].pc = "idle"
  /\ calls < MaxCalls
  /\ LET rec == [Idle EXCEPT !.op = "GetSession", !.method = method]
     IN IF method # "GET"
          THEN /\ Step(p, [Done(rec, "method", NoSession) EXCEPT
                             !.status = StatusMethodNotAllowed,
                             !.body = SessionHandlerSendError(
                                        StatusMethodNotAllowed, FALSE)],
                       sessions, heap)
               /\ UNCHANGED <<mcp, svc, now, config, randCount, active, hist>>
        ELSE IF header = <<>>
          THEN /\ Step(p, [Done(rec, "missing", NoSession) EXCEPT
                             !.status = StatusBadRequest,
                             !.body = SessionHandlerSendError(
                                        StatusBadRequest, FALSE)],
                       sessions, heap)
               /\ UNCHANGED <<mcp, svc, now, config, randCount, active, hist>>
        ELSE ValGetStep(p, [rec EXCEPT !.id = header])

---------------------------------------------------------------------------
Next ==
  \/ Tick
  \/ \E p \in active, ok \in BOOLEAN, r \in FreshDraw :
       CreateGenerate(p, ok, r)
  \/ \E p \in active : CreateSet(p)
  \/ \E p \in active, id \in InputIDs : CallValidate(p, id)
  \/ \E p \in active : ValGet(p)
  \/ \E p \in active : ValExpired(p)
  \/ \E p \in active : ValDelete(p)
  \/ \E p \in active, id \in hist.created \cup {UnknownID} : CallRefresh(p, id)
  \/ \E p \in active : RefreshNow(p)
  \/ \E p \in active : RefreshLastAccess(p)
  \/ \E p \in active : RefreshExpiresAt(p)
  \/ \E p \in active : RefreshSet(p)
  \/ \E p \in active, id \in hist.created \cup {UnknownID} :
       DeleteSession(p, id)
  \/ \E p \in active : CleanupList(p)
  \/ \E p \in active : ListStep(p)
  \/ \E p \in active : ListUnlock(p)
  \/ \E p \in active : CleanupNow(p)
  \/ \E p \in active : \E id \in proc[p].exp : CleanupDelete(p, id)
  \/ \E p \in active, path \in Paths, method \in Methods,
        header \in hist.created \cup {UnknownID, MalformedID, <<>>} :
       GateCall(p, path, method, header)

\* parallel callers
Spec == Init /\ [][Next]_vars

\* parallel callers creating sessions, rand.Read delivering any value
NextCreate ==
  \/ Tick
  \/ \E p \in active, ok \in BOOLEAN, r \in AnyDraw : CreateGenerate(p, ok, r)
  \/ \E p \in active : CreateSet(p)

SpecCreate == Init /\ [][NextCreate]_vars

\* one caller at a time
SpecSeq == InitSeq /\ [][Next]_vars

(***************************************************************************)
(* CleanupService: calls and the sweep loop                                *)
(***************************************************************************)
\* mutant of Start: the running flag is not consulted
StartAlways(p) ==
  /\ proc[p].pc = "idle" /\ calls < MaxCalls
  /\ ~svc.panicked /\ svc.mutex = "free"
  /\ svc.spawned < MaxLoops
  /\ Step(p, Done([Idle EXCEPT !.op = "Start", !.passed = svc.running],
                  "ok", NoSession),
          sessions, heap)
  /\ svc' = [svc EXCEPT !.running = TRUE, !.spawned = @ + 1,
               !.loop[LoopNames[svc.spawned + 1]] =
                  [NoLoop EXCEPT !.pc = "new"]]
  /\ UNCHANGED <<mcp, now, config, randCount, active, hist>>

\* Start(ctx): under the mutex; a no-op when running, else running = true
\* and go c.run(ctx).  passed keeps whether the call found c.running set.
Start(p) ==
  /\ proc[p].pc = "idle" /\ calls < MaxCalls
  /\ ~svc.panicked /\ svc.mutex = "free"
  /\ svc.running \/ svc.spawned < MaxLoops
  /\ Step(p, Done([Idle EXCEPT !.op = "Start", !.passed = svc.running],
                  "ok", NoSession),
          sessions, heap)
  /\ svc' = IF svc.running THEN svc
            ELSE [svc EXCEPT !.running = TRUE, !.spawned = @ + 1,
                    !.loop[LoopNames[svc.spawned + 1]] =
                       [NoLoop EXCEPT !.pc = "new"]]
  /\ UNCHANGED <<mcp, now, config, randCount, active, hist>>

\* Stop(), up to the wait: under the mutex; a no-op when not running, else
\* close(c.stopCh), which panics when the channel is closed already
Stop(p) ==
  /\ proc[p].pc = "idle" /\ calls < MaxCalls
  /\ ~svc.panicked /\ svc.mutex = "free"
  /\ IF ~svc.running
       THEN /\ Step(p, Done([Idle EXCEPT !.op = "Stop"], "ok", NoSession),
                    sessions, heap)
            /\ svc' = svc
     ELSE IF svc.stopCh = "closed"
       THEN /\ Step(p, [Idle EXCEPT !.op = "Stop", !.pc = "panic"],
                    sessions, heap)
            /\ svc' = [svc EXCEPT !.panicked = TRUE, !.mutex = p]
     ELSE /\ Step(p, [Idle EXCEPT !.op = "Stop", !.pc = "stop_wait"],
                  sessions, heap)
          /\ svc' = [svc EXCEPT !.stopCh = "closed", !.mutex = p]
  /\ UNCHANGED <<mcp, now, config, randCount, active, hist>>

\* mutant of StopWait: Stop does not wait for the loop
StopWaitNot(p) ==
  /\ proc[p].pc = "stop_wait"
  /\ ~svc.panicked
  /\ Step(p, Done(proc[p], "ok", NoSession), sessions, heap)
  /\ svc' = [svc EXCEPT !.running = FALSE, !.mutex = "free"]
  /\ UNCHANGED <<mcp, now, config, randCount, active, hist>>

\* Stop(), the rest: <-c.stoppedCh; c.running = false; unlock; return nil
StopWait(p) ==
  /\ proc[p].pc = "stop_wait"
  /\ ~svc.panicked /\ svc.stoppedCh = "closed"
  /\ Step(p, Done(proc[p], "ok", NoSession), sessions, heap)
  /\ svc' = [svc EXCEPT !.running = FALSE, !.mutex = "free"]
  /\ UNCHANGED <<mcp, now, config, randCount, active, hist>>

\* IsRunning(): c.running, read under the mutex (the result is in passed)
IsRunning(p) ==
  /\ proc[p].pc = "idle" /\ calls < MaxCalls
  /\ ~svc.panicked /\ svc.mutex = "free"
  /\ Step(p, [Done([Idle EXCEPT !.op = "IsRunning"], "ok", NoSession)
                EXCEPT !.passed = svc.running],
          sessions, heap)
  /\ UNCHANGED <<mcp, svc, now, config, randCount, active, hist>>

\* SetInterval(d): c.interval = d under the mutex (d is kept in cnt)
SetInterval(p, d) ==
  /\ proc[p].pc = "idle" /\ calls < MaxCalls
  /\ ~svc.panicked /\ svc.mutex = "free"
  /\ Step(p, Done([Idle EXCEPT !.op = "SetInterval", !.cnt = d], "ok",
                  NoSession),
          sessions, heap)
  /\ svc' = [svc EXCEPT !.interval = d,
               !.loop = [l \in Loops |-> [svc.loop[l] EXCEPT !.sinceSet = 0]]]
  /\ UNCHANGED <<mcp, now, config, randCount, active, hist>>

\* the context passed to Start is cancelled
CtxCancel ==
  /\ ~svc.panicked /\ svc.ctx = "live"
  /\ svc' = [svc EXCEPT !.ctx = "cancelled"]
  /\ UNCHANGED <<mcp, now, config, sessions, heap, randCount, active, proc, ret,
                 hist, calls>>

\* run: ticker := time.NewTicker(c.interval), read without the mutex
RunNewTicker(l) ==
  /\ ~svc.panicked /\ svc.loop[l].pc = "new"
  /\ svc' = [svc EXCEPT !.loop[l] =
               [@ EXCEPT !.pc = "select", !.period = svc.interval,
                         !.next = now + svc.interval]]
  /\ UNCHANGED <<mcp, now, config, sessions, heap, randCount, active, proc, ret,
                 hist, calls>>

\* the runtime delivers a tick into ticker.C (capacity 1; a tick that finds
\* it full is dropped) and schedules the next one a period later
TickerFire(l) ==
  /\ ~svc.panicked /\ svc.loop[l].pc \in {"select", "sweep"}
  /\ TickerDue(l) \/ (now = MaxTime /\ svc.loop[l].tickC = 0)
  /\ svc' = [svc EXCEPT !.loop[l] =
               [@ EXCEPT !.tickC = 1, !.fired = now,
                         !.sinceSet = IF @ < 2 THEN @ + 1 ELSE @,
                         !.next = IF svc.loop[l].next + svc.loop[l].period
                                       > MaxTime
                                    THEN MaxTime + 1
                                  ELSE svc.loop[l].next + svc.loop[l].period]]
  /\ UNCHANGED <<mcp, now, config, sessions, heap, randCount, active, proc, ret,
                 hist, calls>>

\* run returns: defer ticker.Stop(); defer close(c.stoppedCh), which panics
\* when the channel is closed already
RunReturn(l) ==
  IF svc.stoppedCh = "closed"
    THEN [svc EXCEPT !.panicked = TRUE, !.loop[l] = [@ EXCEPT !.pc = "exited"]]
  ELSE [svc EXCEPT !.stoppedCh = "closed",
                   !.loop[l] = [@ EXCEPT !.pc = "exited"]]

\* mutant of RunCtxDone: the loop clears the running flag on its way out
RunCtxDoneClears(l) ==
  /\ ~svc.panicked /\ svc.loop[l].pc = "select"
  /\ svc.ctx = "cancelled"
  /\ svc' = [RunReturn(l) EXCEPT !.running = FALSE]
  /\ UNCHANGED <<mcp, now, config, sessions, heap, randCount, active, proc, ret,
                 hist, calls>>

\* run, select: case <-ctx.Done(): return
RunCtxDone(l) ==
  /\ ~svc.panicked /\ svc.loop[l].pc = "select"
  /\ svc.ctx = "cancelled"
  /\ svc' = RunReturn(l)
  /\ UNCHANGED <<mcp, now, config, sessions, heap, randCount, active, proc, ret,
                 hist, calls>>

\* run, select: case <-c.stopCh: return
RunStopCh(l) ==
  /\ ~svc.panicked /\ svc.loop[l].pc = "select"
  /\ svc.stopCh = "closed"
  /\ svc' = RunReturn(l)
  /\ UNCHANGED <<mcp, now, config, sessions, heap, randCount, active, proc, ret,
                 hist, calls>>

\* mutant of RunTick: the tick is consumed and no sweep is run
RunTickIdle(l) ==
  /\ ~svc.panicked /\ svc.loop[l].pc = "select"
  /\ svc.loop[l].tickC = 1
  /\ svc' = [svc EXCEPT !.loop[l] = [@ EXCEPT !.tickC = 0]]
  /\ UNCHANGED <<mcp, now, config, sessions, heap, randCount, active, proc, ret,
                 hist, calls>>

\* run, select: case <-ticker.C: c.RunOnce(cleanupCtx), which enters
\* CleanupExpiredSessions (its m.store.List is part of this step)
RunTick(l) ==
  /\ ~svc.panicked /\ svc.loop[l].pc = "select"
  /\ svc.loop[l].tickC = 1
  /\ \E first \in ListFirst :
       Step(l, ListEnter([Idle EXCEPT !.op = "Cleanup", !.pc = "cl_list",
                            !.prevT = IF ret.op = "Cleanup" /\ ret.who = l
                                      THEN ret.t ELSE -1],
                         first),
            sessions, heap)
  /\ svc' = [svc EXCEPT !.loop[l] = [@ EXCEPT !.pc = "sweep", !.tickC = 0]]
  /\ UNCHANGED <<mcp, now, config, randCount, active, hist>>

\* run: RunOnce returned; cancel(); back to the select
RunOnceDone(l) ==
  /\ ~svc.panicked /\ svc.loop[l].pc = "sweep"
  /\ proc[l].pc = "idle"
  /\ svc' = [svc EXCEPT !.loop[l] = [@ EXCEPT !.pc = "select"]]
  /\ UNCHANGED <<mcp, now, config, sessions, heap, randCount, active, proc, ret,
                 hist, calls>>

\* a fresh service of any interval beside the manager
InitSvc ==
  /\ InitCommon
  /\ active = Procs
  /\ config \in [SessionTimeout : 1..MaxTimeout, RequireSession : {TRUE},
                 ExcludedPaths : {DefaultExcludedPaths}]
  /\ svc \in {NewCleanupService(i) : i \in 1..MaxInterval}
  /\ mcp = NoHandler

\* callers create sessions and drive the service; its loops sweep
NextSvc ==
  \/ ~svc.panicked /\ Tick
  \/ \E p \in active, ok \in BOOLEAN, r \in FreshDraw :
       ~svc.panicked /\ CreateGenerate(p, ok, r)
  \/ \E p \in active : ~svc.panicked /\ CreateSet(p)
  \/ \E p \in active : Start(p)
  \/ \E p \in active : Stop(p)
  \/ \E p \in active : StopWait(p)
  \/ \E p \in active : IsRunning(p)
  \/ \E p \in active, d \in 1..MaxInterval : SetInterval(p, d)
  \/ CtxCancel
  \/ \E l \in Loops : RunNewTicker(l)
  \/ \E l \in Loops : TickerFire(l)
  \/ \E l \in Loops : RunCtxDone(l)
  \/ \E l \in Loops : RunStopCh(l)
  \/ \E l \in Loops : RunTick(l)
  \/ \E l \in Loops : ~svc.panicked /\ ListStep(l)
  \/ \E l \in Loops : ~svc.panicked /\ ListUnlock(l)
  \/ \E l \in Loops : ~svc.panicked /\ CleanupNow(l)
  \/ \E l \in Loops : \E id \in proc[l].exp :
       ~svc.panicked /\ CleanupDelete(l, id)
  \/ \E l \in Loops : RunOnceDone(l)

SpecSvc == InitSvc /\ [][NextSvc]_vars

\* one caller beside the service
InitSvcLive ==
  /\ InitCommon
  /\ active = {"p1"}
  /\ config \in [SessionTimeout : 1..MaxTimeout, RequireSession : {TRUE},
                 ExcludedPaths : {DefaultExcludedPaths}]
  /\ svc \in {NewCleanupService(i) : i \in 1..MaxInterval}
  /\ mcp = NoHandler

\* as NextSvc, with sessions created early enough to expire before the
\* clock's last value
NextSvcLive ==
  \/ ~svc.panicked /\ Tick
  \/ \E p \in active, ok \in BOOLEAN, r \in FreshDraw :
       /\ ~svc.panicked /\ now + config.SessionTimeout < MaxTime
       /\ CreateGenerate(p, ok, r)
  \/ \E p \in active : ~svc.panicked /\ CreateSet(p)
  \/ \E p \in active : Start(p)
  \/ \E p \in active : Stop(p)
  \/ \E p \in active : StopWait(p)
  \/ \E p \in active : IsRunning(p)
  \/ \E p \in active, d \in 1..MaxInterval : SetInterval(p, d)
  \/ CtxCancel
  \/ \E l \in Loops : RunNewTicker(l)
  \/ \E l \in Loops : TickerFire(l)
  \/ \E l \in Loops : RunCtxDone(l)
  \/ \E l \in Loops : RunStopCh(l)
  \/ \E l \in Loops : RunTick(l)
  \/ \E l \in Loops : ~svc.panicked /\ ListStep(l)
  \/ \E l \in Loops : ~svc.panicked /\ ListUnlock(l)
  \/ \E l \in Loops : ~svc.panicked /\ CleanupNow(l)
  \/ \E l \in Loops : \E id \in proc[l].exp :
       ~svc.panicked /\ CleanupDelete(l, id)
  \/ \E l \in Loops : RunOnceDone(l)

\* time passes, tickers fire, and a loop goroutine that can take a step is
\* scheduled; callers and cancellation are under no obligation
FairSvc ==
  /\ WF_vars(~svc.panicked /\ Tick)
  /\ \A l \in Loops :
       /\ WF_vars(RunNewTicker(l))
       /\ WF_vars(TickerFire(l))
       /\ WF_vars(RunTick(l))
       /\ WF_vars(~svc.panicked /\ ListStep(l))
       /\ WF_vars(~svc.panicked /\ ListUnlock(l))
       /\ WF_vars(~svc.panicked /\ CleanupNow(l))
       /\ WF_vars(\E id \in proc[l].exp :
                    ~svc.panicked /\ CleanupDelete(l, id))
       /\ WF_vars(RunOnceDone(l))

SpecSvcLive == InitSvcLive /\ [][NextSvcLive]_vars /\ FairSvc

\* a caller blocked in <-c.stoppedCh runs once the channel is closed; a
\* select that keeps finding ctx.Done() or stopCh ready among its ready
\* cases takes that case sooner or later (the choice is uniformly random)
FairCalls ==
  /\ \A p \in Procs : WF_vars(StopWait(p))
  /\ \A l \in Loops : SF_vars(RunCtxDone(l)) /\ SF_vars(RunStopCh(l))

SpecSvcFair == InitSvcLive /\ [][NextSvcLive]_vars /\ FairSvc /\ FairCalls

\* GetStats(): c.running and c.interval, read under the mutex (passed and
\* cnt keep the two values of the returned map)
GetStats(p) ==
  /\ proc[p].pc = "idle" /\ calls < MaxCalls
  /\ ~svc.panicked /\ svc.mutex = "free"
  /\ Step(p, [Done([Idle EXCEPT !.op = "GetStats", !.cnt = svc.interval],
                   "ok", NoSession)
                EXCEPT !.passed = svc.running],
          sessions, heap)
  /\ UNCHANGED <<mcp, svc, now, config, randCount, active, hist>>

\* RunOnce(ctx) called from outside the loop: it takes no mutex and enters
\* CleanupExpiredSessions
RunOnce(p) == ~svc.panicked /\ CleanupList(p)

\* every call of the service, from two callers, beside the loop; the
\* sessions the sweeps list are created before the clock first advances
NextSvcCalls ==
  \/ ~svc.panicked /\ Tick
  \/ \E p \in active, ok \in BOOLEAN, r \in FreshDraw :
       ~svc.panicked /\ now = 0 /\ CreateGenerate(p, ok, r)
  \/ \E p \in active : ~svc.panicked /\ CreateSet(p)
  \/ \E p \in active : Start(p)
  \/ \E p \in active : Stop(p)
  \/ \E p \in active : StopWait(p)
  \/ \E p \in active : IsRunning(p)
  \/ \E p \in active : GetStats(p)
  \/ \E p \in active, d \in 1..MaxInterval : SetInterval(p, d)
  \/ \E p \in active : RunOnce(p)
  \/ CtxCancel
  \/ \E l \in Loops : RunNewTicker(l)
  \/ \E l \in Loops : TickerFire(l)
  \/ \E l \in Loops : RunCtxDone(l)
  \/ \E l \in Loops : RunStopCh(l)
  \/ \E l \in Loops : RunTick(l)
  \/ \E t \in active \cup Loops : ~svc.panicked /\ ListStep(t)
  \/ \E t \in active \cup Loops : ~svc.panicked /\ ListUnlock(t)
  \/ \E t \in active \cup Loops : ~svc.panicked /\ CleanupNow(t)
  \/ \E t \in active \cup Loops : \E id \in proc[t].exp :
       ~svc.panicked /\ CleanupDelete(t, id)
  \/ \E l \in Loops : RunOnceDone(l)

\* callers that are inside a call are scheduled as well.  A Delete waiting
\* for the store's write lock gets it although Lists keep coming: a
\* sync.RWMutex admits no new reader while a writer waits.
FairCallers ==
  \A p \in Procs :
    /\ WF_vars(~svc.panicked /\ ListStep(p))
    /\ WF_vars(~svc.panicked /\ ListUnlock(p))
    /\ WF_vars(~svc.panicked /\ CleanupNow(p))
    /\ SF_vars(\E id \in proc[p].exp : ~svc.panicked /\ CleanupDelete(p, id))

SpecSvcCalls ==
  InitSvc /\ [][NextSvcCalls]_vars /\ FairSvc /\ FairCalls /\ FairCallers

(***************************************************************************)
(* The manager's counters                                                  *)
(***************************************************************************)
\* GetActiveSessionCount: count, err := m.store.Count(ctx); return count
GetActiveSessionCount(p) ==
  /\ proc[p].pc = "idle" /\ calls < MaxCalls
  /\ Step(p, Done([Idle EXCEPT !.op = "GetActiveSessionCount",
                               !.cnt = StoreCount],
                  "ok", NoSession),
          sessions, heap)
  /\ UNCHANGED <<mcp, svc, now, config, randCount, active, hist>>

\* GetSessionStats, part 1: sessions, err := m.store.List(ctx)
GetSessionStatsList(p) ==
  /\ proc[p].pc = "idle" /\ calls < MaxCalls
  /\ \E first \in ListFirst :
       Step(p, ListEnter([Idle EXCEPT !.op = "GetSessionStats",
                                      !.pc = "stats_list"],
                         first),
            sessions, heap)
  /\ UNCHANGED <<mcp, svc, now, config, randCount, active, hist>>

\* GetSessionStats, part 2: now := time.Now(); the listed sessions with
\* now.After(session.ExpiresAt) are expired, the others active (cnt keeps
\* active_sessions, seen keeps total_sessions)
GetSessionStatsNow(p) ==
  /\ proc[p].pc = "stats_now"
  /\ Step(p, [proc[p] EXCEPT
                !.pc = "stats_store",
                !.t = now,
                !.cnt = Cardinality({x \in proc[p].snap : ~IsExpired(x, now)}),
                !.seen = Cardinality(proc[p].snap)],
          sessions, heap)
  /\ UNCHANGED <<mcp, svc, now, config, randCount, active, hist>>

\* GetSessionStats, part 3: the store's own GetStats(), len(s.sessions)
\* under the read lock, is added as store_total_sessions; return stats
GetSessionStats(p) ==
  /\ proc[p].pc = "stats_store"
  /\ Step(p, Done([proc[p] EXCEPT !.storeTotal = StoreCount], "ok",
                  NoSession),
          sessions, heap)
  /\ UNCHANGED <<mcp, svc, now, config, randCount, active, hist>>

\* sessions are created and age while two callers ask for the counters
NextStats ==
  \/ Tick
  \/ \E p \in active, ok \in BOOLEAN, r \in FreshDraw :
       CreateGenerate(p, ok, r)
  \/ \E p \in active : CreateSet(p)
  \/ \E p \in active : GetActiveSessionCount(p)
  \/ \E p \in active : GetSessionStatsList(p)
  \/ \E p \in active : ListStep(p)
  \/ \E p \in active : ListUnlock(p)
  \/ \E p \in active : GetSessionStatsNow(p)
  \/ \E p \in active : GetSessionStats(p)

SpecStats == Init /\ [][NextStats]_vars

(***************************************************************************)
(* MemoryStore.List called directly, its result kept by the caller         *)
(***************************************************************************)
\* mutant of ListCopy: the stored pointers themselves are returned
ListAlias(S, H, snap) ==
  [heap |-> H, refs |-> {S[id] : id \in DOMAIN S}]

\* List: sessions = append(sessions, &sessionCopy) for each stored
\* session: the heap with the copies allocated, and the references
\* returned.  snap holds the copies the loop has read.
ListCopy(S, H, snap) ==
  LET ids == DOMAIN S
      ord == CHOOSE f \in [1..Cardinality(ids) -> ids] :
               \A i, j \in 1..Cardinality(ids) : i # j => f[i] # f[j]
      copy(id) == CHOOSE x \in snap : x.ID = id
  IN [heap |-> H \o [i \in 1..Cardinality(ids) |-> copy(ord[i])],
      refs |-> {Len(H) + i : i \in 1..Cardinality(ids)}]

\* a caller invokes store.List(ctx): the read lock is taken and the copy
\* loop begins
CallList(p) ==
  /\ proc[p].pc = "idle"
  /\ calls < MaxCalls
  /\ \E first \in ListFirst :
       Step(p, ListEnter([Idle EXCEPT !.op = "List", !.pc = "ls_list"],
                         first),
            sessions, heap)
  /\ UNCHANGED <<mcp, svc, now, config, randCount, active, hist>>

\* store.List returns: the last copy is completed, the read lock is
\* released and the caller keeps the result
ListHeld(p) ==
  /\ proc[p].pc = "ls_list"
  /\ proc[p].todo = {}
  /\ LET res == ListCopy(sessions, heap, ListDone(proc[p]))
     IN Step(p, [proc[p] EXCEPT !.pc = "ls_held",
                   !.lrefs = res.refs,
                   !.snap = {res.heap[r] : r \in res.refs},
                   !.cur = NoSession],
             sessions, res.heap)
  /\ UNCHANGED <<mcp, svc, now, config, randCount, active, hist>>

\* the caller writes to a session List returned (cnt counts its writes)
ListModify(p, r) ==
  /\ proc[p].pc = "ls_held"
  /\ r \in proc[p].lrefs
  /\ heap[r].ExpiresAt # 0
  /\ Step(p, [proc[p] EXCEPT !.cnt = @ + 1], sessions,
          [heap EXCEPT ![r].ExpiresAt = 0])
  /\ UNCHANGED <<mcp, svc, now, config, randCount, active, hist>>

\* the caller drops the result
ListReturn(p) ==
  /\ proc[p].pc = "ls_held"
  /\ Step(p, Done(proc[p], "ok", NoSession), sessions, heap)
  /\ UNCHANGED <<mcp, svc, now, config, randCount, active, hist>>

\* parallel callers of the manager and of List
InitList ==
  /\ InitCommon
  /\ active = Procs
  /\ config \in [SessionTimeout : 1..MaxTimeout, RequireSession : {TRUE},
                 ExcludedPaths : {DefaultExcludedPaths}]
  /\ svc = NewCleanupService(1)
  /\ mcp = NoHandler

NextList ==
  \/ Tick
  \/ \E p \in active, ok \in BOOLEAN, r \in FreshDraw :
       CreateGenerate(p, ok, r)
  \/ \E p \in active : CreateSet(p)
  \/ \E p \in active, id \in hist.created : CallRefresh(p, id)
  \/ \E p \in active : ValExpired(p)
  \/ \E p \in active : ValDelete(p)
  \/ \E p \in active : RefreshNow(p)
  \/ \E p \in active : RefreshLastAccess(p)
  \/ \E p \in active : RefreshExpiresAt(p)
  \/ \E p \in active : RefreshSet(p)
  \/ \E p \in active, id \in hist.created : DeleteSession(p, id)
  \/ \E p \in active : CallList(p)
  \/ \E p \in active : ListStep(p)
  \/ \E p \in active : ListHeld(p)
  \/ \E p \in active : \E r \in proc[p].lrefs : ListModify(p, r)
  \/ \E p \in active : ListReturn(p)

SpecList == InitList /\ [][NextList]_vars

(***************************************************************************)
(* telemetry.SessionManagerWrapper, the manager the server is wired with   *)
(***************************************************************************)
\* SessionManagerWrapper.DeleteSession, part 1:
\* sess, getErr := w.SessionManager.ValidateSession(ctx, sessionID).
\* snap keeps the store's sessions as they were when the call was made.
CallWrapDelete(p, id) ==
  /\ proc[p].pc = "idle"
  /\ calls < MaxCalls
  /\ ValGetStep(p, [Idle EXCEPT !.op = "WrapDelete", !.id = id,
                                !.snap = {Stored(x) : x \in DOMAIN sessions}])

\* SessionManagerWrapper.DeleteSession, part 2:
\* err := w.SessionManager.DeleteSession(ctx, sessionID); return err
WrapDelete(p) ==
  /\ proc[p].pc = "wd_del"
  /\ WriteLockFree
  /\ Step(p, Done(proc[p],
                  IF StoreHas(proc[p].id) THEN "ok" ELSE ErrSessionNotFound,
                  NoSession),
          StoreDelete(sessions, proc[p].id), heap)
  /\ hist' = IF StoreHas(proc[p].id)
               THEN [hist EXCEPT !.removed = @ \cup {proc[p].id},
                                 !.deleted = @ \cup {proc[p].id}]
             ELSE hist
  /\ UNCHANGED <<mcp, svc, now, config, randCount, active>>

\* one caller of the wrapped manager
InitTel ==
  /\ InitCommon
  /\ active = {"p1"}
  /\ config \in [SessionTimeout : 1..MaxTimeout, RequireSession : {TRUE},
                 ExcludedPaths : {DefaultExcludedPaths}]
  /\ svc = NewCleanupService(1)
  /\ mcp = NoHandler

NextTel ==
  \/ Tick
  \/ \E p \in active, ok \in BOOLEAN, r \in FreshDraw :
       CreateGenerate(p, ok, r)
  \/ \E p \in active : CreateSet(p)
  \/ \E p \in active, id \in InputIDs : CallWrapDelete(p, id)
  \/ \E p \in active : ValExpired(p)
  \/ \E p \in active : ValDelete(p)
  \/ \E p \in active : WrapDelete(p)
  \/ \E p \in active, id \in hist.created \cup {UnknownID} :
       DeleteSession(p, id)

SpecTel == InitTel /\ [][NextTel]_vars

(***************************************************************************)
(* The HTTP surface of sessions: the gate and a session endpoint           *)
(***************************************************************************)
\* one client of the gate and of GET /sessions/status
InitHttp ==
  /\ InitCommon
  /\ active = {"p1"}
  /\ config \in [SessionTimeout : 1..MaxTimeout, RequireSession : {TRUE},
                 ExcludedPaths : {DefaultExcludedPaths}]
  /\ svc = NewCleanupService(1)
  /\ mcp = NoHandler

NextHttp ==
  \/ Tick
  \/ \E p \in active, ok \in BOOLEAN, r \in FreshDraw :
       CreateGenerate(p, ok, r)
  \/ \E p \in active : CreateSet(p)
  \/ \E p \in active : ValGet(p)
  \/ \E p \in active : ValExpired(p)
  \/ \E p \in active : ValDelete(p)
  \/ \E p \in active : RefreshNow(p)
  \/ \E p \in active : RefreshLastAccess(p)
  \/ \E p \in active : RefreshExpiresAt(p)
  \/ \E p \in active : RefreshSet(p)
  \/ \E p \in active, path \in Paths, method \in Methods,
        header \in hist.created \cup {UnknownID, MalformedID, <<>>} :
       GateCall(p, path, method, header)
  \/ \E p \in active, method \in {"GET", "POST"},
        header \in hist.created \cup {UnknownID, MalformedID, <<>>} :
       GetSession(p, method, header)

SpecHttp == InitHttp /\ [][NextHttp]_vars

(***************************************************************************)
(* MemoryStore.Close and Count called directly                             *)
(***************************************************************************)
\* mutant of StoreClose: one entry is dropped at a time
StoreCloseOne(m) ==
  IF DOMAIN m = {} THEN m
  ELSE StoreDelete(m, CHOOSE id \in DOMAIN m : TRUE)

\* Close: s.sessions = make(map[string]*Session)
StoreClose(m) == [id \in {} |-> m[id]]

\* store.Close(): under the write lock; cnt keeps sessionCount
Close(p) ==
  /\ proc[p].pc = "idle"
  /\ calls < MaxCalls
  /\ WriteLockFree
  /\ Step(p, Done([Idle EXCEPT !.op = "Close", !.cnt = StoreCount], "ok",
                  NoSession),
          StoreClose(sessions), heap)
  /\ UNCHANGED <<mcp, svc, now, config, randCount, active, hist>>

\* store.Count(ctx): len(s.sessions) under the read lock
Count(p) ==
  /\ proc[p].pc = "idle"
  /\ calls < MaxCalls
  /\ Step(p, Done([Idle EXCEPT !.op = "Count", !.cnt = StoreCount], "ok",
                  NoSession),
          sessions, heap)
  /\ UNCHANGED <<mcp, svc, now, config, randCount, active, hist>>

\* parallel callers of the manager and of the store
InitStore ==
  /\ InitCommon
  /\ active = Procs
  /\ config \in [SessionTimeout : 1..MaxTimeout, RequireSession : {TRUE},
                 ExcludedPaths : {DefaultExcludedPaths}]
  /\ svc = NewCleanupService(1)
  /\ mcp = NoHandler

NextStore ==
  \/ Tick
  \/ \E p \in active, ok \in BOOLEAN, r \in FreshDraw :
       CreateGenerate(p, ok, r)
  \/ \E p \in active : CreateSet(p)
  \/ \E p \in active, id \in hist.created : DeleteSession(p, id)
  \/ \E p \in active : Close(p)
  \/ \E p \in active : Count(p)

SpecStore == InitStore /\ [][NextStore]_vars

(***************************************************************************)
(* MCP dispatcher: operators and actions                                   *)
(***************************************************************************)
\* jsonrpc.NewError
NewError(code, message, data) ==
  [NoEnvelope EXCEPT !.error = TRUE, !.code = code, !.message = message,
                     !.data = data]

httpError(text, status) ==
  [NoResponse EXCEPT !.status = status, !.kind = "text", !.text = text]

\* flusher # nil: the envelope goes out as an SSE data event, else as a
\* JSON body; the status is the default 200 in both cases
sendJSONResponse(flusher, env) ==
  [NoResponse EXCEPT !.status = StatusOK,
                     !.kind = IF flusher THEN "sse" ELSE "json",
                     !.env = env]

sendResponse(flusher, id, result) ==
  sendJSONResponse(flusher, [NoEnvelope EXCEPT !.id = id, !.result = result])

\* the Response is built from the error alone: no ID is set
sendError(flusher, err) == sendJSONResponse(flusher, err)

\* Registry.Register: r.tools[tool.Name()] = tool
RegistryRegister(tools, tool) ==
  [n \in DOMAIN tools \cup {tool.name} |->
     IF n = tool.name THEN tool ELSE tools[n]]

\* Registry.List: a copy of the map
RegistryList(tools) == [n \in DOMAIN tools |-> tools[n]]

\* Registry.Call: outcome is what the tool's own Call returns
RegistryCall(tools, toolName, outcome) ==
  IF toolName \notin DOMAIN tools
    THEN [val |-> "", err |-> "Tool not found", invoked |-> ""]
    ELSE [val |-> IF outcome = "" THEN "result" ELSE "", err |-> outcome,
          invoked |-> tools[toolName].name]

\* mutant of toolDefs: the first tool of the iteration is left out
toolDefsSkipFirst(toolList, order) ==
  [i \in 1..(Len(order) - 1) |-> toolList[order[i + 1]].name]

\* the range loop over the listed tools, one definition per tool, in the
\* map's iteration order
toolDefs(toolList, order) ==
  [i \in 1..Len(order) |-> toolList[order[i]].name]

\* handleInitialize: always a JSON body with status 200
handleInitialize(req, tools, order) ==
  [NoResponse EXCEPT
     !.status = StatusOK, !.kind = "json",
     !.env = [NoEnvelope EXCEPT !.id = req.id, !.result = "capabilities",
                                !.tools = toolDefs(RegistryList(tools), order)]]

\* handleToolsList
handleToolsList(req, tools, order) ==
  [NoResponse EXCEPT
     !.status = StatusOK, !.kind = "json",
     !.env = [NoEnvelope EXCEPT !.id = req.id, !.result = "tools",
                                !.tools = toolDefs(RegistryList(tools), order)]]

\* mutant of handleToolExecution: a failed invocation is answered with an
\* HTTP 500 instead of an error envelope
handleToolExecutionAbort(flusher, req, hasRequest, tools, outcome) ==
  IF ~req.params.wellformed
    THEN sendError(flusher, NewError(InvalidParams, "Invalid parameters",
                                     "unmarshal error"))
  ELSE IF ~hasRequest
    THEN sendError(flusher,
                   NewError(InternalError,
                            "Failed to get HTTP request from context", ""))
  ELSE LET r == RegistryCall(tools, req.params.name, outcome) IN
    IF r.err # ""
      THEN [httpError(r.err, StatusInternalServerError)
              EXCEPT !.invoked = r.invoked]
      ELSE [sendResponse(flusher, req.id, r.val) EXCEPT !.invoked = r.invoked]

\* handleToolExecution; hasRequest is GetRequestFromContext's ok
handleToolExecution(flusher, req, hasRequest, tools, outcome) ==
  IF ~req.params.wellformed
    THEN sendError(flusher, NewError(InvalidParams, "Invalid parameters",
                                     "unmarshal error"))
  ELSE IF ~hasRequest
    THEN sendError(flusher,
                   NewError(InternalError,
                            "Failed to get HTTP request from context", ""))
  ELSE LET r == RegistryCall(tools, req.params.name, outcome) IN
    IF r.err # ""
      THEN [sendError(flusher, NewError(InternalError,
                                        "Failed to execute tool", r.err))
              EXCEPT !.invoked = r.invoked]
      ELSE [sendResponse(flusher, req.id, r.val) EXCEPT !.invoked = r.invoked]

\* handleRequest: the method switch.  In part_004 the case "tools/execute"
\* has no statements and Go does not fall through, so nothing is written
\* and net/http answers 200 with an empty body.  In part_003 the context
\* passed down is r.Context(), which does not hold the request.
handleRequest(version, flusher, req, tools, order, outcome) ==
  IF req.method = "initialize" THEN handleInitialize(req, tools, order)
  ELSE IF req.method = "tools/execute" THEN
    IF version = "part_004"
      THEN [NoResponse EXCEPT !.status = StatusOK, !.kind = "empty"]
      ELSE handleToolExecution(flusher, req, FALSE, tools, outcome)
  ELSE IF req.method = "tools/call" /\ version = "part_004"
    THEN handleToolExecution(flusher, req, TRUE, tools, outcome)
  ELSE sendError(flusher, NewError(MethodNotFound, "Method not found", ""))

\* Handle for everything but an accepted GET stream.  part_004 asks for
\* the flusher before it looks at the method, whenever Accept names the
\* event stream; part_003 asks for it after parsing a POST when Accept
\* names the event stream, again before any method other than initialize
\* and tools/list, and before it opens a stream.
Handle(version, req, tools, order, outcome) ==
  IF req.http = "OPTIONS"
    THEN [NoResponse EXCEPT !.status = StatusOK, !.kind = "empty"]
  ELSE IF version = "part_004" /\ AcceptsSSE(req.accept) /\ ~req.canFlush
    THEN httpError("Streaming not supported", StatusInternalServerError)
  ELSE IF req.http = "POST" /\ req.ctype = JSON THEN
    IF ~req.readable
      THEN httpError("Failed to read request body", StatusBadRequest)
    ELSE IF ~req.wellformed
      THEN httpError("Invalid JSON-RPC request", StatusBadRequest)
    ELSE IF AcceptsSSE(req.accept) /\ ~req.canFlush
      THEN httpError("Streaming not supported", StatusInternalServerError)
    ELSE IF req.method = "initialize"
      THEN handleInitialize(req, tools, order)
    ELSE IF req.method = "tools/list"
      THEN handleToolsList(req, tools, order)
    ELSE IF version = "part_003" /\ ~req.canFlush
      THEN httpError("Streaming not supported", StatusInternalServerError)
    ELSE handleRequest(version,
                       IF version = "part_004" THEN AcceptsSSE(req.accept)
                                               ELSE TRUE,
                       req, tools, order, outcome)
  ELSE IF version = "part_004"
    THEN httpError("Method not allowed", StatusMethodNotAllowed)
  ELSE IF req.http # "GET"
    THEN httpError("Method not allowed", StatusMethodNotAllowed)
  ELSE IF req.accept # SSE
    THEN httpError("This endpoint requires an SSE connection",
                   StatusBadRequest)
  ELSE httpError("Streaming not supported", StatusInternalServerError)

\* the GET request is accepted as a stream
OpensStream(version, req) ==
  /\ req.http = "GET"
  /\ req.canFlush
  /\ IF version = "part_004" THEN AcceptsSSE(req.accept)
                             ELSE req.accept = SSE

\* request bodies and requests a client can send; params are read by the
\* tool methods only, and a POST is served the same for every Accept value
\* that names the event stream
ParamValues ==
  {[wellformed |-> FALSE, name |-> ""]}
    \cup {[wellformed |-> TRUE, name |-> n] : n \in ToolNames \cup {UnknownTool}}

RpcBodies ==
  {[NoRequest EXCEPT !.wellformed = TRUE, !.id = i, !.method = m] :
     i \in RequestIDs \cup {NoID},
     m \in RpcMethods \ {"tools/call", "tools/execute"}}
    \cup {[NoRequest EXCEPT !.wellformed = TRUE, !.id = i, !.method = m,
                            !.params = p] :
            i \in RequestIDs \cup {NoID},
            m \in {"tools/call", "tools/execute"}, p \in ParamValues}

\* a POST whose body breaks off before it was read to the end
Unreadable == [NoRequest EXCEPT !.readable = FALSE]

Requests ==
  {[r EXCEPT !.canFlush = f] :
     f \in BOOLEAN,
     r \in {[NoRequest EXCEPT !.http = h, !.accept = a] :
              h \in {"GET", "OPTIONS"}, a \in AcceptValues}
           \cup {[b EXCEPT !.http = "POST", !.accept = a, !.ctype = c] :
                   a \in {JSON, SSE}, c \in ContentTypes,
                   b \in RpcBodies \cup {NoRequest, Unreadable}}}

sessionVars == <<now, config, sessions, heap, randCount, active, proc, ret,
                 hist, calls, svc>>

\* Registry.Register(tool), at start-up or later
Register(tool) ==
  /\ mcp.version # "none"
  /\ mcp' = [mcp EXCEPT !.tools = RegistryRegister(@, tool)]
  /\ UNCHANGED sessionVars

\* Handle, from the arrival of a request that does not open a stream to
\* the release of the registry's read lock (Registry.List, or Registry.Get
\* inside Registry.Call).  toolsAt is the registry as the handler found it
\* and outcome what the tool's Call returns if the handler gets to call it;
\* what follows depends on nothing else, so the answer is settled here.
\* The exchange before this one is over: its request and answer are
\* forgotten.
HandleOneShot(req, outcome) ==
  /\ mcp.version # "none"
  /\ ~mcp.pending.busy
  /\ ~OpensStream(mcp.version, req)
  /\ \E order \in Orders(DOMAIN mcp.tools) :
       mcp' = [mcp EXCEPT
         !.req = NoRequest, !.toolsAt = <<>>, !.outcome = "",
         !.resp = NoResponse,
         !.pending = [busy |-> TRUE, req |-> req, toolsAt |-> mcp.tools,
                      outcome |-> outcome,
                      resp |-> Handle(mcp.version, req, mcp.tools, order,
                                      outcome)]]
  /\ UNCHANGED sessionVars

\* Handle, the rest: the tool's Call has run outside the registry's lock,
\* the answer is written and Handle returns
HandleWrite ==
  /\ mcp.pending.busy
  /\ mcp' = [mcp EXCEPT
       !.req = mcp.pending.req, !.toolsAt = mcp.pending.toolsAt,
       !.outcome = mcp.pending.outcome, !.resp = mcp.pending.resp,
       !.pending = NoPending]
  /\ UNCHANGED sessionVars

\* Handle on a GET that asks for an event stream: part_004 enters the
\* keep-alive loop at once, part_003 first writes the handshake
HandleStreamOpen(req) ==
  /\ mcp.version # "none"
  /\ mcp.stream.pc \in {"none", "returned"}
  /\ OpensStream(mcp.version, req)
  /\ mcp' = [mcp EXCEPT
       !.stream = [NoStream EXCEPT
                     !.pc = IF mcp.version = "part_004" THEN "select"
                                                        ELSE "handshake"]]
  /\ UNCHANGED sessionVars

\* fmt.Fprintf(w, ...) and Flush: the write reaches the client, or lands in
\* the buffer of a connection the client has left, or fails on it
StreamWrite(from, event, to) ==
  /\ mcp.stream.pc = from
  /\ \/ mcp' = [mcp EXCEPT !.stream.events = Append(@, event),
                           !.stream.pc = to]
     \/ /\ mcp.stream.cancelled
        /\ mcp' = [mcp EXCEPT !.stream.pc = "returned"]
  /\ UNCHANGED sessionVars

\* part_003: ": Welcome to MCP SSE Server"
HandleHandshake == StreamWrite("handshake", "handshake", "init")

\* part_003: the capability push, then time.NewTicker
HandleInitPush == StreamWrite("init", "init", "ping")

\* part_003: the initial ping
HandleInitialPing ==
  /\ Len(mcp.stream.events) < MaxEvents
  /\ StreamWrite("ping", "keepalive", "select")

\* the 30 s timer (time.After in part_004, the ticker in part_003) fires
TimerFires ==
  /\ mcp.stream.pc \in {"ping", "select"}
  /\ ~mcp.stream.fired
  /\ Len(mcp.stream.events) < MaxEvents
  /\ mcp' = [mcp EXCEPT !.stream.fired = TRUE]
  /\ UNCHANGED sessionVars

\* the client goes away: the request context is cancelled
ClientDisconnect ==
  /\ mcp.stream.pc \notin {"none", "returned"}
  /\ ~mcp.stream.cancelled
  /\ mcp' = [mcp EXCEPT !.stream.cancelled = TRUE]
  /\ UNCHANGED sessionVars

\* select, case <-r.Context().Done()
HandleSelectDone ==
  /\ mcp.stream.pc = "select"
  /\ mcp.stream.cancelled
  /\ mcp' = [mcp EXCEPT !.stream.pc = "returned"]
  /\ UNCHANGED sessionVars

\* select, case of the timer: any ready case may be taken
HandleSelectTimer ==
  /\ mcp.stream.pc = "select"
  /\ mcp.stream.fired
  /\ \/ mcp' = [mcp EXCEPT !.stream.events = Append(@, "keepalive"),
                           !.stream.fired = FALSE]
     \/ /\ mcp.stream.cancelled
        /\ mcp' = [mcp EXCEPT !.stream.pc = "returned"]
  /\ UNCHANGED sessionVars

InitMcp ==
  /\ InitCommon
  /\ active = {}
  /\ config = [SessionTimeout |-> 1, RequireSession |-> TRUE,
               ExcludedPaths |-> DefaultExcludedPaths]
  /\ svc = NewCleanupService(1)
  /\ mcp \in {NewHandler(v) : v \in Versions}

NextMcp ==
  \/ \E tool \in Tools : Register(tool)
  \/ \E req \in Requests, outcome \in ToolFailures \cup {""} :
       HandleOneShot(req, outcome)
  \/ HandleWrite

SpecMcp == InitMcp /\ [][NextMcp]_vars

\* one streaming connection at a time, with the registry filling up
NextSse ==
  \/ \E tool \in Tools : Register(tool)
  \/ \E req \in Requests : HandleStreamOpen(req)
  \/ HandleHandshake
  \/ HandleInitPush
  \/ HandleInitialPing
  \/ TimerFires
  \/ ClientDisconnect
  \/ HandleSelectDone
  \/ HandleSelectTimer

SpecSse == InitMcp /\ [][NextSse]_vars

(***************************************************************************)
(* SessionIDGenerator called directly                                      *)
(***************************************************************************)
\* draws of rand.Read, as numbers (see RandomBytes)
GenDraws == {1, 62, 63, 255, 4095, 65535}

\* segments a caller may put together, well-formed and not
PrefixParts == {SessionIDPrefix, <<"S", "e", "s", "s">>, <<"s", "e", "s">>,
                <<"i", "n", "v", "a", "l", "i", "d">>, <<>>}
TimestampParts == {<<"0">>, <<"1", "2", "3">>, <<"1", "2", "a">>,
                   <<"a", "b", "c">>, <<"-", "1">>, <<>>}
FullRandom == EncodeToString(RandomBytes(4095))
RandomParts ==
  {FullRandom, SubSeq(FullRandom, 1, Len(FullRandom) - 1),
   FullRandom \o <<"A">>, <<"a">>, <<>>,
   [FullRandom EXCEPT ![1] = "@"], [FullRandom EXCEPT ![7] = "+"],
   [FullRandom EXCEPT ![43] = "="], [FullRandom EXCEPT ![20] = "/"]}

\* strings.Join(parts, ".")
RECURSIVE Join(_)
Join(parts) ==
  IF Len(parts) = 0 THEN <<>>
  ELSE IF Len(parts) = 1 THEN parts[1]
  ELSE parts[1] \o <<".">> \o Join(Tail(parts))

\* the identifiers presented to Validate: one to four segments
CandidateIDs ==
  {<<>>}
    \cup {Join(<<a, b, c>>) :
            a \in PrefixParts, b \in TimestampParts, c \in RandomParts}
    \cup {Join(<<a, b>>) : a \in PrefixParts, b \in TimestampParts}
    \cup {Join(<<SessionIDPrefix, <<"1", "2", "3">>, c, d>>) :
            c \in RandomParts, d \in {FullRandom, <<>>}}

\* id, err := generator.Generate(); err = generator.Validate(id)
GenerateValidate(p, r) ==
  /\ proc[p].pc = "idle"
  /\ calls < MaxCalls
  /\ LET id == Generate(r, now)
     IN Step(p, Done([Idle EXCEPT !.op = "GenerateValidate", !.id = id],
                     Validate(id), NoSession),
             sessions, heap)
  /\ UNCHANGED <<mcp, svc, now, config, randCount, active, hist>>

\* generator.Validate(sessionID) on a string from outside
GenValidate(p, sessionID) ==
  /\ proc[p].pc = "idle"
  /\ calls < MaxCalls
  /\ Step(p, Done([Idle EXCEPT !.op = "GenValidate", !.id = sessionID],
                  Validate(sessionID), NoSession),
          sessions, heap)
  /\ UNCHANGED <<mcp, svc, now, config, randCount, active, hist>>

InitGen ==
  /\ InitCommon
  /\ active = {"p1"}
  /\ config = [SessionTimeout |-> 1, RequireSession |-> TRUE,
               ExcludedPaths |-> DefaultExcludedPaths]
  /\ svc = NewCleanupService(1)
  /\ mcp = NoHandler

NextGen ==
  \/ Tick
  \/ \E p \in active, r \in GenDraws : GenerateValidate(p, r)
  \/ \E p \in active, sessionID \in CandidateIDs : GenValidate(p, sessionID)

SpecGen == InitGen /\ [][NextGen]_vars

(***************************************************************************)
(* Properties                                                              *)
(***************************************************************************)
Busy == {p \in Threads : proc[p].pc # "idle"}

\* a step in which a call returns; ret' is then the outcome of that call
ReturnStep == (Busy' \subseteq Busy /\ Busy' # Busy)
                \/ (calls' # calls /\ Busy' = Busy)

\* no caller is inside Session.Refresh or between it and the store's Set
NoRefreshInFlight ==
  \A p \in Procs : proc[p].pc \notin {"ref_la", "ref_ea", "ref_set"}

---------------------------------------------------------------------------
\* C1: ValidateSession on the id of a created session that nobody has
\* refreshed or removed since, checked no later than its expiry, succeeds
\* and returns the session with that id and expiresAt = createdAt + timeout
\* (it never fails as invalid; it fails as not found only after a removal,
\* as expired only when its clock reading is past createdAt + timeout).
C1_ValidateAfterCreate ==
  (ret.op = "Validate" /\ ret.id \in hist.created
     /\ ret.id \notin hist.refreshed) =>
    /\ ret.err \in {"ok", ErrSessionNotFound, ErrSessionExpired}
    /\ ret.err = ErrSessionNotFound => ret.id \in hist.removed
    /\ ret.err = ErrSessionExpired =>
         ret.t > ret.pre.CreatedAt + config.SessionTimeout
    /\ ret.err = "ok" =>
         /\ ret.out.ID = ret.id
         /\ ret.out.ExpiresAt = ret.out.CreatedAt + config.SessionTimeout

\* a validation at the very instant of expiry, of a session never refreshed
C1_Witness ==
  /\ ret.op = "Validate" /\ ret.err = "ok"
  /\ ret.id \in hist.created /\ ret.id \notin hist.refreshed
  /\ ret.t = ret.out.ExpiresAt /\ ret.t > ret.out.CreatedAt

---------------------------------------------------------------------------
\* C2: every ValidateSession ends in exactly one of four outcomes, by
\* precedence: SESSION_INVALID iff the id is malformed (the store is then
\* not consulted); otherwise SESSION_NOT_FOUND iff the store's Get finds no
\* entry; otherwise SESSION_EXPIRED iff the clock read is after the
\* expiresAt read; otherwise the stored session is returned.
C2_ValidatePrecedence ==
  [][(ReturnStep /\ ret'.op = "Validate") =>
       LET r == ret'
           malformed == Validate(r.id) # "ok"
           found == r.pre # NoSession
       IN /\ r.err \in {"ok", ErrSessionInvalid, ErrSessionNotFound,
                        ErrSessionExpired}
          /\ r.err = ErrSessionInvalid <=> malformed
          /\ malformed => ~found
          /\ r.err = ErrSessionNotFound <=> (~malformed /\ ~found)
          /\ r.err = ErrSessionNotFound => r.id \notin DOMAIN sessions
          /\ found => r.pre.ID = r.id
          /\ r.err = ErrSessionExpired <=> (found /\ r.t > r.seen)
          /\ r.err = "ok" <=> (found /\ ~(r.t > r.seen))
          /\ r.err = "ok" => r.out.ID = r.id]_vars

\* all four outcomes: a malformed id that is rejected while a session is stored
C2_Witness ==
  /\ ret.op = "Validate" /\ ret.err = ErrSessionInvalid
  /\ ret.id = ShortID /\ StoreCount > 0

---------------------------------------------------------------------------
\* C3: a ValidateSession that finds a stored session whose expiresAt has
\* passed fails with SESSION_EXPIRED, and when it returns the entry is gone
\* from the store (a Get for the id fails with SESSION_NOT_FOUND).
C3_ExpiredIsRemoved ==
  [][(ReturnStep /\ ret'.op = "Validate") =>
       /\ (ret'.pre # NoSession /\ ret'.t > ret'.seen) =>
            ret'.err = ErrSessionExpired
       /\ ret'.err = ErrSessionExpired =>
            (ret'.pre # NoSession /\ ret'.id \notin DOMAIN sessions')]_vars

\* an expired validation whose deletion removed the entry
C3_Witness ==
  /\ ret.op = "Validate" /\ ret.err = ErrSessionExpired
  /\ ret.id \in hist.removed /\ ret.id \notin hist.deleted
  /\ ret.id \notin DOMAIN sessions

---------------------------------------------------------------------------
\* C4: when a RefreshSession returns ok, the stored expiresAt at its return
\* is no earlier than the stored expiresAt at its start, and likewise the
\* stored lastAccessAt.
C4_RefreshMonotone ==
  (ret.op = "Refresh" /\ ret.err = "ok") =>
    /\ ret.out.ExpiresAt >= ret.pre.ExpiresAt
    /\ ret.out.LastAccess >= ret.pre.LastAccess

---------------------------------------------------------------------------
\* C5: concurrent RefreshSession calls on one id are serializable: no step
\* lowers the stored expiresAt of a session, and whenever no refresh is in
\* flight every stored record carries the lastAccessAt and the expiresAt of
\* one and the same write (expiresAt = lastAccessAt + timeout).
C5_RefreshSerializable ==
  [][/\ \A id \in DOMAIN sessions \cap DOMAIN sessions' :
          Stored(id)'.ExpiresAt >= Stored(id).ExpiresAt
     /\ NoRefreshInFlight' =>
          \A id \in DOMAIN sessions' :
             Stored(id)'.ExpiresAt
               = Stored(id)'.LastAccess + config.SessionTimeout]_vars

---------------------------------------------------------------------------
\* C6: once DeleteSession(id) has returned ok the id is never in the store
\* again.
C6_DeletedStaysAbsent == \A id \in hist.deleted : id \notin DOMAIN sessions

---------------------------------------------------------------------------
\* C7: with one caller at a time, CleanupExpiredSessions removes exactly the
\* stored sessions whose expiresAt is before the sweep time, leaves every
\* other entry present and unmodified, and returns the number removed; a
\* sweep that directly follows a sweep, with no session expiring in between,
\* removes nothing and returns 0.
C7_SweepExact ==
  (ret.op = "Cleanup" /\ Busy = {}) =>
    LET expired == {s \in ret.snap : s.ExpiresAt < ret.t}
        kept == ret.snap \ expired
    IN /\ ret.err = "ok"
       /\ DOMAIN sessions = {s.ID : s \in kept}
       /\ \A s \in kept : Stored(s.ID) = s
       /\ ret.cnt = Cardinality(expired)
       /\ (ret.prevT >= 0
             /\ ~\E s \in ret.snap :
                   ret.prevT <= s.ExpiresAt /\ s.ExpiresAt < ret.t) =>
            (ret.cnt = 0 /\ DOMAIN sessions = {s.ID : s \in ret.snap})

\* two sessions created, a sweep that removed the expired one and kept the
\* other, then a second sweep that found the survivor and removed nothing
C7_Witness ==
  /\ ret.op = "Cleanup" /\ Busy = {}
  /\ calls = 4 /\ hist.nCreated = 2
  /\ Cardinality(hist.removed) = 1 /\ StoreCount = 1
  /\ ret.prevT >= 0 /\ ret.cnt = 0 /\ Cardinality(ret.snap) = 1

---------------------------------------------------------------------------
\* C8: the removal of an entry by a sweep or by the expiry deletion of
\* ValidateSession never hits a session whose stored expiresAt is still in
\* the future at the moment of the removal.
C8_SweepSparesLive ==
  [][\A id \in DOMAIN sessions :
       (/\ id \notin DOMAIN sessions'
        /\ \E p \in Procs : /\ proc[p].pc \in {"val_del", "cl_del"}
                            /\ proc'[p] # proc[p])
       => ~(Stored(id).ExpiresAt > now)]_vars

---------------------------------------------------------------------------
\* C9 as stated: the CreateSession calls of parallel callers all succeed,
\* the ids of the sessions created are pairwise distinct, and the store
\* count is the number of creations.
C9_AllCreated ==
  /\ ret.op = "Create" => ret.err = "ok"
  /\ hist.nCreated = Cardinality(hist.created)
  /\ StoreCount = hist.nCreated

\* C9, amended: a CreateSession call of parallel callers fails only when
\* rand.Read failed, with SESSION_GENERATION_FAILED and no session, and
\* otherwise returns the session it stored; two creations have the same id
\* exactly when rand.Read delivered the same value to both within the same
\* second, so there are as many ids as distinct (value, second) pairs; the
\* store holds exactly the created ids, so its count is the number of
\* creations whenever their draws were pairwise distinct.
C9_ConcurrentCreate ==
  /\ ret.op = "Create" =>
       IF ret.err = "ok"
         THEN /\ ret.out.ID = Generate(ret.cnt, ret.t)
              /\ ret.out.ID \in hist.created
              /\ <<ret.cnt, ret.t>> \in hist.draws
         ELSE ret.err = ErrSessionGeneration /\ ret.out = NoSession
  /\ Cardinality(hist.created) = Cardinality(hist.draws)
  /\ hist.created = {Generate(d[1], d[2]) : d \in hist.draws}
  /\ DOMAIN sessions = hist.created
  /\ StoreCount = Cardinality(hist.draws)
  /\ hist.nCreated = Cardinality(hist.draws) => StoreCount = hist.nCreated

\* two overlapping creations with different draws in the same second, both
\* stored: the one that returned last had allocated its session first
C9_Witness ==
  /\ hist.nCreated = 2 /\ StoreCount = 2
  /\ ret.op = "Create" /\ calls = 2
  /\ sessions[ret.id] = 1
  /\ \E d, e \in hist.draws : d[1] # e[1] /\ d[2] = e[2]

---------------------------------------------------------------------------
\* C10: on a path that is not excluded and a method other than OPTIONS the
\* gate answers: no header and sessions required -> 400; no header and
\* sessions not required -> pass, no session attached; malformed id -> 400;
\* id not found or expired -> 401; any other validation failure -> 500;
\* valid id -> pass with the validated session attached; the next handler
\* runs in the pass cases only.  (ValidateSession of the session manager
\* fails in the three named ways only.)
C10_GateDecision ==
  (ret.op = "Gate" /\ ~isPathExcluded(ret.path)
     /\ ret.method # "OPTIONS") =>
    /\ ret.passed <=> ret.status = StatusOK
    /\ ret.passed <=> ret.err = "ok"
    /\ ret.err = "missing" =>
         (ret.id = <<>> /\ config.RequireSession
            /\ ret.status = StatusBadRequest)
    /\ (ret.id = <<>> /\ ret.op = "Gate") =>
         IF config.RequireSession THEN ret.err = "missing"
         ELSE ret.passed /\ ret.out = NoSession
    /\ ret.err = ErrSessionInvalid => ret.status = StatusBadRequest
    /\ ret.err \in {ErrSessionNotFound, ErrSessionExpired} =>
         ret.status = StatusUnauthorized
    /\ ret.err \notin {"ok", "missing", ErrSessionInvalid, ErrSessionNotFound,
                       ErrSessionExpired} =>
         ret.status = StatusInternalServerError
    /\ (ret.passed /\ ret.id # <<>>) => ret.out.ID = ret.id

\* a gated POST carrying the id of a stored session that has expired,
\* rejected with 401 without the next handler being invoked
C10_Witness ==
  /\ ret.op = "Gate" /\ ~isPathExcluded(ret.path) /\ ret.method = "POST"
  /\ ret.id \in hist.created
  /\ ret.err = ErrSessionExpired /\ ret.status = StatusUnauthorized
  /\ ~ret.passed

---------------------------------------------------------------------------
\* C11: a gated request carrying the id of a created session that was never
\* removed is admitted with 200; a gated request issued after DeleteSession
\* returned ok for its id is rejected with 401, and a ValidateSession issued
\* then fails with SESSION_NOT_FOUND (neither finds the entry in the store).
C11_EndToEnd ==
  [][/\ (ReturnStep /\ ret'.op = "Gate" /\ ~isPathExcluded(ret'.path)
           /\ ret'.method # "OPTIONS" /\ ret'.id \in hist.created
           /\ ret'.id \notin hist'.removed) =>
          (ret'.passed /\ ret'.status = StatusOK /\ ret'.out.ID = ret'.id)
     /\ \A p \in Procs :
          (calls' # calls /\ proc[p].pc = "idle" /\ proc'[p].pc # "idle"
             /\ proc'[p].op \in {"Gate", "Validate"}) =>
            proc'[p].id \notin hist.deleted
     /\ (calls' # calls /\ ReturnStep /\ ret'.id \in hist.deleted) =>
          /\ (ret'.op = "Gate" /\ ~isPathExcluded(ret'.path)
                /\ ret'.method # "OPTIONS") =>
               (~ret'.passed /\ ret'.status = StatusUnauthorized)
          /\ ret'.op = "Validate" => ret'.err = ErrSessionNotFound]_vars

---------------------------------------------------------------------------
\* C12: when the gate's ValidateSession succeeded and the RefreshSession
\* after it fails (the session was deleted or expired in between), the gate
\* still calls the next handler, with the session the validation returned
\* in the request context, and produces no error response.
C12_RefreshFailurePasses ==
  [][\A p \in Procs :
       (/\ proc[p].op = "Gate" /\ proc[p].phase = "refresh"
        /\ proc[p].pc \in {"val_get", "val_exp", "val_del"}
        /\ proc'[p].pc = "idle") =>
         /\ ret'.who = p /\ ret'.op = "Gate"
         /\ ret'.passed /\ ret'.status = StatusOK
         /\ ret'.out = heap[proc[p].gref]
         /\ ret'.out.ID = proc[p].id]_vars

\* a gated request admitted although its session was deleted between the
\* gate's validation and its refresh
C12_Witness ==
  /\ ret.op = "Gate" /\ ret.passed /\ ret.status = StatusOK
  /\ ret.id \in hist.deleted /\ ret.id \notin DOMAIN sessions
  /\ ret.out.ID = ret.id /\ calls = 3

---------------------------------------------------------------------------
\* C13: with the default middleware configuration a POST /sse is gated:
\* without the header it is answered 400, with a malformed id 400, with an
\* unknown or removed id 401, and the next handler is not called.
C13_SseGated ==
  (/\ ret.op = "Gate" /\ ret.path = PathSse /\ ret.method = "POST"
   /\ config.ExcludedPaths = DefaultExcludedPaths /\ config.RequireSession) =>
    /\ ret.id = <<>> => (ret.status = StatusBadRequest /\ ~ret.passed)
    /\ (ret.id # <<>> /\ Validate(ret.id) # "ok") =>
         (ret.status = StatusBadRequest /\ ~ret.passed)
    /\ (Validate(ret.id) = "ok" /\ ret.id \notin hist.created) =>
         (ret.status = StatusUnauthorized /\ ~ret.passed)

---------------------------------------------------------------------------
\* C19: a record that is in the store changes only inside a store
\* operation: the session stored under an id is altered by no step other
\* than a Set (of CreateSession or RefreshSession).
C19_StoredChangesOnlyInSet ==
  [][\A id \in DOMAIN sessions \cap DOMAIN sessions' :
       Stored(id)' # Stored(id) =>
         \E p \in Procs : /\ proc[p].pc \in {"create_set", "ref_set"}
                          /\ proc'[p] # proc[p]]_vars

---------------------------------------------------------------------------
\* C14: CleanupService.Start is idempotent.  At most one sweep loop exists
\* at any time; every Start returns ok; a Start on a running service
\* leaves the service as it was; the first Start on a fresh service takes
\* it from no loop to exactly one.
C14_StartIdempotent ==
  [][ /\ Cardinality(LiveLoops') <= 1
      /\ (ReturnStep /\ ret'.op = "Start") =>
           /\ ret'.err = "ok"
           /\ svc.running => svc' = svc
           /\ (svc.spawned = 0 /\ ~svc.running) =>
                /\ LiveLoops = {}
                /\ Cardinality(LiveLoops') = 1
                /\ svc'.running ]_vars

\* a Start that found the service running returned, after the loop of the
\* first Start had begun to wait for ticks
C14_Witness ==
  /\ ret.op = "Start" /\ ret.passed /\ ret.err = "ok"
  /\ svc.running /\ svc.spawned = 1 /\ svc.stopCh = "open"
  /\ Cardinality(LiveLoops) = 1
  /\ svc.loop["l1"].pc = "select"

---------------------------------------------------------------------------
\* C15: CleanupService.Stop joins the loop.  When Stop returns it returns
\* ok, no loop is alive, none is sweeping and c.running is false; a Stop
\* on a service that is not running changes nothing; and for as long as
\* the service stays not running no loop lives or sweeps.
C15_StopJoins ==
  [][ /\ (ReturnStep /\ ret'.op = "Stop") =>
           /\ ret'.err = "ok"
           /\ ~svc'.running
           /\ ~svc.running => svc' = svc
      /\ ~svc'.running =>
           /\ LiveLoops' = {}
           /\ \A l \in Loops : proc'[l].pc = "idle" ]_vars

\* Stop returned on a service whose loop had swept an expired session out
C15_Witness ==
  /\ ret.op = "Stop" /\ ret.err = "ok"
  /\ ~svc.running /\ svc.stopCh = "closed" /\ svc.stoppedCh = "closed"
  /\ svc.loop["l1"].pc = "exited" /\ svc.loop["l1"].fired >= 0
  /\ hist.removed # {}

---------------------------------------------------------------------------
\* C16: once the context passed to Start is cancelled the loop begins no
\* new sweep: no loop leaves its select for a sweep while the context is
\* cancelled.
C16_NoSweepAfterCancel ==
  [][ \A l \in Loops :
        (svc.loop[l].pc = "select" /\ svc'.loop[l].pc = "sweep")
          => svc.ctx # "cancelled" ]_vars

---------------------------------------------------------------------------
\* C18: after SetInterval(d) on a running service the tick already
\* scheduled keeps its time, and every later tick of the running loop
\* comes d after the tick before it (sinceSet counts the loop's ticks
\* since the last SetInterval, fired is the time of its last tick).
C18_SetIntervalSpacing ==
  [][ /\ (ReturnStep /\ ret'.op = "SetInterval") =>
           /\ svc'.interval = ret'.cnt
           /\ \A l \in Loops : svc'.loop[l].next = svc.loop[l].next
      /\ \A l \in Loops :
           (/\ TickerDue(l)
            /\ svc'.loop[l].next # svc.loop[l].next
            /\ svc.loop[l].sinceSet >= 1)
             => now - svc.loop[l].fired = svc.interval ]_vars

---------------------------------------------------------------------------
\* the service is running: started, not stopped, its context not cancelled
ServiceUp ==
  /\ svc.running /\ svc.stopCh = "open" /\ svc.ctx = "live"
  /\ ~svc.panicked

\* the r-th generated session is stored and its expiresAt has passed
StoredExpired(r) ==
  \E t \in 0..MaxTime :
    /\ StoreHas(Generate(r, t))
    /\ IsExpired(Stored(Generate(r, t)), now)

\* the r-th generated session is not in the store
NotStored(r) == \A t \in 0..MaxTime : ~StoreHas(Generate(r, t))

\* C17: liveness of automatic cleanup.  While the service is running and
\* ticks keep firing, a stored session whose expiresAt has passed is
\* eventually removed from the store; and if the service keeps running
\* the store eventually stays empty (callers make finitely many calls and
\* none refreshes).
C17_CleanupLiveness ==
  /\ \A r \in 1..MaxSessions :
       (ServiceUp /\ StoredExpired(r)) ~> (~ServiceUp \/ NotStored(r))
  /\ <>[]ServiceUp => <>[](StoreCount = 0)

\* a sweep of the running service's loop removed an expired session and
\* left the store empty
C17_Witness ==
  /\ ServiceUp
  /\ ret.op = "Cleanup" /\ ret.who \in Loops /\ ret.cnt >= 1
  /\ hist.removed # {} /\ StoreCount = 0

---------------------------------------------------------------------------
\* C20: Store.List returns independent snapshots.  While a caller holds
\* the sessions a List returned, a write of the caller to one of them
\* leaves the store's map and every stored session as they were, and no
\* other step (Set, Delete, Refresh, of any caller) changes any of them.
C20_ListIndependent ==
  [][ \A p \in Procs :
        (proc[p].pc = "ls_held" /\ proc'[p].pc = "ls_held") =>
          IF proc'[p].cnt # proc[p].cnt
            THEN /\ sessions' = sessions
                 /\ \A id \in DOMAIN sessions :
                      heap'[sessions[id]] = heap[sessions[id]]
                 /\ \E r \in proc[p].lrefs : heap'[r] # heap[r]
          ELSE \A r \in proc[p].lrefs : heap'[r] = heap[r] ]_vars

\* a caller holds a snapshot it has written to, while the session it was
\* copied from has since been refreshed in the store
C20_Witness ==
  \E p \in Procs : \E r \in proc[p].lrefs : \E id \in DOMAIN sessions :
    /\ proc[p].pc = "ls_held" /\ proc[p].cnt >= 1
    /\ heap[r].ID = id /\ heap[r].ExpiresAt = 0
    /\ id \in hist.refreshed
    /\ Stored(id).ExpiresAt > 0
    /\ Stored(id).LastAccess > heap[r].LastAccess

---------------------------------------------------------------------------
\* C21: DeleteSession(id) is an unconditional removal, of the manager
\* itself and of the manager behind the telemetry wrapper: it returns ok
\* exactly when the id was in the store at the call, expired or not, and
\* SESSION_NOT_FOUND exactly when it was not; the id is absent afterwards;
\* a failed call leaves the store as it was.
C21_DeleteUnconditional ==
  [][ /\ (ReturnStep /\ ret'.op = "Delete") =>
           /\ ret'.err = "ok" <=> StoreHas(ret'.id)
           /\ ret'.err = ErrSessionNotFound <=> ~StoreHas(ret'.id)
           /\ ret'.id \notin DOMAIN sessions'
           /\ ~StoreHas(ret'.id) => sessions' = sessions
      /\ (ReturnStep /\ ret'.op = "WrapDelete") =>
           LET was == \E x \in ret'.snap : x.ID = ret'.id
           IN /\ ret'.err = "ok" <=> was
              /\ ret'.err = ErrSessionNotFound <=> ~was
              /\ ret'.id \notin DOMAIN sessions'
              /\ ~was => DOMAIN sessions' = {x.ID : x \in ret'.snap} ]_vars

---------------------------------------------------------------------------
\* C22: Store.Close discards all entries in one step and is idempotent.
\* Every Close returns ok and leaves the store empty, whatever it held
\* (nothing, after an earlier Close); no step shrinks the store by more
\* than one entry unless it empties it; a Count returns the number of
\* entries, and 0 when the last call to return before it was a Close.
C22_CloseAtomicIdempotent ==
  [][ /\ (ReturnStep /\ ret'.op = "Close") =>
           /\ ret'.err = "ok"
           /\ ret'.cnt = StoreCount
           /\ sessions' = <<>>
      /\ (ReturnStep /\ ret'.op = "Count") =>
           /\ ret'.cnt = StoreCount
           /\ ret.op = "Close" => ret'.cnt = 0
      /\ Cardinality(DOMAIN sessions') < StoreCount - 1
           => sessions' = <<>> ]_vars

\* a second Close returned on the store a first Close had emptied of two
\* sessions
C22_Witness ==
  /\ ret.op = "Close" /\ ret.err = "ok" /\ ret.cnt = 0
  /\ calls = 4 /\ hist.nCreated = 2 /\ hist.removed = {}
  /\ StoreCount = 0

---------------------------------------------------------------------------
\* the handler found the flusher wherever it asked for one on the way to
\* the method's handler: the writer can flush, or Accept does not name the
\* event stream and the method is one that is answered without a flusher
HasFlusher(req) ==
  \/ req.canFlush
  \/ /\ ~AcceptsSSE(req.accept)
     /\ mcp.version = "part_004" \/ req.method \in {"initialize", "tools/list"}

\* a JSON-RPC request that was POSTed with a JSON content type, whose body
\* was read and parsed, and that reached the handler of its method
IsRpcPost(req) ==
  /\ req.http = "POST" /\ req.ctype = JSON
  /\ req.readable /\ req.wellformed /\ HasFlusher(req)

\* C23: the answer to a POSTed initialize request is a result envelope whose
\* tools list has exactly one entry for every tool name that was registered
\* when the request was handled: as many entries as registered names, and
\* the names listed are the names registered.
C23_InitializeListsRegistry ==
  (IsRpcPost(mcp.req) /\ mcp.req.method = "initialize") =>
    /\ mcp.resp.status = StatusOK
    /\ mcp.resp.kind = "json"
    /\ ~mcp.resp.env.error
    /\ Len(mcp.resp.env.tools) = Cardinality(DOMAIN mcp.toolsAt)
    /\ {mcp.resp.env.tools[i] : i \in 1..Len(mcp.resp.env.tools)}
         = DOMAIN mcp.toolsAt

\* an initialize request answered by part_004 with both tools registered
C23_Witness ==
  /\ mcp.version = "part_004"
  /\ IsRpcPost(mcp.req) /\ mcp.req.method = "initialize"
  /\ DOMAIN mcp.toolsAt = ToolNames
  /\ Len(mcp.resp.env.tools) = 2

---------------------------------------------------------------------------
\* the handled request was a tools/call whose tool invocation failed: the
\* name was not registered, or the registered tool's Call returned an error
ToolCallFailed ==
  /\ IsRpcPost(mcp.req) /\ mcp.req.method = "tools/call"
  /\ mcp.req.params.wellformed
  /\ mcp.req.params.name \notin DOMAIN mcp.toolsAt \/ mcp.outcome # ""

\* C24: in the handler that serves tools/call (part_004), a tools/call
\* request whose tool invocation fails, an unregistered name included, is
\* answered with status 200 and an error envelope (JSON body or SSE data
\* event) whose code is InternalError and whose data is the error message
\* of the tool or of the registry; it is never answered with an HTTP error
\* or left without an answer.
C24_ToolFailureIsInternalError ==
  (mcp.version = "part_004" /\ ToolCallFailed) =>
    /\ mcp.resp.status = StatusOK
    /\ mcp.resp.kind \in {"json", "sse"}
    /\ mcp.resp.env.error
    /\ mcp.resp.env.code = InternalError
    /\ mcp.resp.env.data =
         IF mcp.req.params.name \in DOMAIN mcp.toolsAt
           THEN mcp.outcome ELSE "Tool not found"

\* a registered tool was invoked and failed, answered by part_004
C24_Witness ==
  /\ mcp.version = "part_004" /\ ToolCallFailed
  /\ mcp.req.params.name \in DOMAIN mcp.toolsAt
  /\ mcp.resp.invoked = mcp.req.params.name
  /\ mcp.resp.env.data = "city is required"

---------------------------------------------------------------------------
\* C25: a request with the deprecated method name tools/execute is served as
\* the same request with method tools/call would be, for the same params,
\* headers, registry and tool outcome: the response written is the one
\* Handle produces for the tools/call request, and a registered tool named
\* in well-formed params is invoked.
C25_ExecuteAliasOfCall ==
  (IsRpcPost(mcp.req) /\ mcp.req.method = "tools/execute") =>
    /\ \E order \in Orders(DOMAIN mcp.toolsAt) :
         mcp.resp = Handle(mcp.version,
                           [mcp.req EXCEPT !.method = "tools/call"],
                           mcp.toolsAt, order, mcp.outcome)
    /\ (mcp.req.params.wellformed
          /\ mcp.req.params.name \in DOMAIN mcp.toolsAt)
         => mcp.resp.invoked = mcp.req.params.name

---------------------------------------------------------------------------
\* C26: a POST with a JSON content type whose body was read, on a writer
\* that can flush, and does not parse as a JSON-RPC envelope is answered
\* with an error envelope whose code is ParseError.
C26_MalformedBodyIsParseError ==
  (/\ mcp.req.http = "POST" /\ mcp.req.ctype = JSON
   /\ mcp.req.readable /\ mcp.req.canFlush /\ ~mcp.req.wellformed) =>
    /\ mcp.resp.kind \in {"json", "sse"}
    /\ mcp.resp.env.error
    /\ mcp.resp.env.code = ParseError

---------------------------------------------------------------------------
\* C27: every envelope written in reply to a parsed request, with a result
\* or with an error, carries the id of that request.
C27_EnvelopeCarriesRequestID ==
  (IsRpcPost(mcp.req) /\ mcp.resp.kind \in {"json", "sse"}) =>
    mcp.resp.env.id = mcp.req.id

---------------------------------------------------------------------------
\* C28: the handler of a stream emits a keep-alive event only while the
\* connection is open: no step appends a keep-alive to the stream once the
\* request context has been cancelled.
C28_KeepAliveOnlyWhileOpen ==
  [][(Len(mcp'.stream.events) = Len(mcp.stream.events) + 1
        /\ mcp'.stream.events[Len(mcp'.stream.events)] = "keepalive")
      => ~mcp.stream.cancelled]_vars

---------------------------------------------------------------------------
\* C29: on a stream the first event is the handshake comment, the second
\* the capability push, and every keep-alive comes after both.
C29_StreamOrder ==
  LET ev == mcp.stream.events IN
  /\ Len(ev) >= 1 => ev[1] = "handshake"
  /\ Len(ev) >= 2 => ev[2] = "init"
  /\ \A i \in 1..Len(ev) : ev[i] = "keepalive" => i > 2

---------------------------------------------------------------------------
\* C30: every rejection written by the gate or by a session endpoint has
\* the same body: an object with a success member that is false and an
\* error object with message and code (the HTTP status), details optional.
C30_RejectionBodyShape ==
  (ret.op \in {"Gate", "GetSession"} /\ ret.status # 0
     /\ ret.status # StatusOK) =>
    /\ ret.body.kind = "error"
    /\ ret.body.hasSuccess /\ ~ret.body.success
    /\ ret.body.code = ret.status

---------------------------------------------------------------------------
\* the positions of the dots of an identifier
DotPositions(s) == {i \in 1..Len(s) : s[i] = "."}

\* sess.<decimal digits>.<at least EncodedLen(32) base64url characters>
WellFormedID(s) ==
  /\ Cardinality(DotPositions(s)) = 2
  /\ LET i == CHOOSE k \in DotPositions(s) : \A l \in DotPositions(s) : k <= l
         j == CHOOSE k \in DotPositions(s) : \A l \in DotPositions(s) : k >= l
     IN /\ SubSeq(s, 1, i - 1) = SessionIDPrefix
        /\ j > i + 1
        /\ \A k \in (i + 1)..(j - 1) : s[k] \in Range(Digits)
        /\ Len(s) - j >= EncodedLen(SessionIDLength)
        /\ \A k \in (j + 1)..Len(s) : s[k] \in Range(Base64URL)

\* C31: Validate accepts every identifier Generate produces, and rejects
\* every string that is not three dot-separated segments made of the
\* literal prefix, a decimal timestamp and a random part of base64url
\* characters at least as long as the encoding of 32 bytes.
C31_GenerateValidateFormat ==
  /\ ret.op = "GenerateValidate" => ret.err = "ok"
  /\ (ret.op = "GenValidate" /\ ~WellFormedID(ret.id))
       => ret.err = ErrSessionInvalid

\* Validate rejected an identifier whose only defect is a random part one
\* character short
C31_Witness ==
  /\ ret.op = "GenValidate"
  /\ ret.id = Join(<<SessionIDPrefix, <<"1", "2", "3">>,
                     SubSeq(FullRandom, 1, Len(FullRandom) - 1)>>)
  /\ ~WellFormedID(ret.id)
  /\ ret.err = ErrSessionInvalid

---------------------------------------------------------------------------
\* the context of Start is cancelled and no Stop has got to close stopCh
CancelledNoStop ==
  svc.ctx = "cancelled" /\ svc.spawned >= 1 /\ svc.stopCh = "open"

\* C32: after the context passed to Start is cancelled, with no Stop yet,
\* the loop exits, and every IsRunning that returns before a Stop returns
\* true; a Stop called then does not wait forever: it returns ok and
\* leaves running false.
C32_CancelThenStop ==
  /\ [][(ReturnStep /\ ret'.op = "IsRunning" /\ CancelledNoStop)
          => ret'.passed]_vars
  /\ (CancelledNoStop /\ svc.loop[LoopNames[1]].pc # "exited")
       ~> (svc.loop[LoopNames[1]].pc = "exited")
  /\ \A p \in Procs :
       (proc[p].pc = "stop_wait" /\ svc.ctx = "cancelled")
         ~> (proc[p].pc = "idle" /\ ret.op = "Stop" /\ ret.err = "ok"
               /\ ~svc.running)

\* the loop has exited on the cancelled context, no Stop was called, and
\* IsRunning has just returned true
C32_Witness ==
  /\ CancelledNoStop
  /\ svc.loop[LoopNames[1]].pc = "exited"
  /\ svc.stoppedCh = "closed"
  /\ ret.op = "IsRunning" /\ ret.passed
  /\ proc[ret.who].pc = "idle"

---------------------------------------------------------------------------
\* C33: the service can be restarted: no Start, Stop or loop panics, and
\* whenever the service is running, with the context live and no Stop under
\* way, exactly one sweep loop is alive; in particular after a Start that
\* follows a completed Stop.
C33_Restartable ==
  /\ ~svc.panicked
  /\ (svc.running /\ svc.ctx = "live" /\ svc.mutex = "free")
       => Cardinality(LiveLoops) = 1

---------------------------------------------------------------------------
\* C34: no call of the service is stuck for good: nothing panics (a panic
\* ends the process with its calls in flight), a Stop that waits for the
\* loop has a loop that is still to close stoppedCh or has closed it, and
\* the mutex is only ever held by a Stop in that wait.
C34_NoStuckCall ==
  /\ ~svc.panicked
  /\ \A p \in Procs :
       /\ proc[p].pc # "panic"
       /\ proc[p].pc = "stop_wait" =>
            svc.stoppedCh = "closed" \/ LiveLoops # {}
  /\ svc.mutex # "free" =>
       svc.mutex \in Procs /\ proc[svc.mutex].pc = "stop_wait"

\* C34, as progress: a call in flight returns and a held mutex is released
C34_CallsReturn ==
  /\ \A p \in Procs :
       (proc[p].pc \in {"stop_wait", "panic", "cl_list", "cl_now", "cl_del"})
         ~> (proc[p].pc = "idle")
  /\ (svc.mutex # "free") ~> (svc.mutex = "free")

---------------------------------------------------------------------------
\* C35: a sweep counts exactly what it removes itself.  It starts at zero;
\* each iteration of its deletion loop removes at most the one entry it
\* tried and adds one to the count exactly when it removed it; an entry
\* that is gone already is skipped and the sweep goes on to return ok.
\* When the second of two sweeps returns, nothing else having removed
\* anything, the two counts add up to the number of entries removed.
C35_SweepCountExact ==
  [][\A p \in Procs :
       LET gone == (DOMAIN sessions) \ (DOMAIN sessions')
           after == IF proc'[p].pc = "idle" THEN ret' ELSE proc'[p]
       IN /\ (proc[p].pc = "idle" /\ proc'[p].pc = "cl_list") =>
               proc'[p].cnt = 0
          /\ (proc[p].pc \in {"cl_list", "cl_now"} /\ proc'[p] # proc[p]) =>
               after.cnt = 0 /\ gone = {}
          /\ (proc[p].pc = "cl_del" /\ proc'[p] # proc[p]) =>
               /\ gone \subseteq proc[p].exp /\ Cardinality(gone) <= 1
               /\ after.cnt = proc[p].cnt + Cardinality(gone)
               /\ after.exp = {} <=> proc'[p].pc = "idle"
               /\ proc'[p].pc = "idle" =>
                    ret'.op = "Cleanup" /\ ret'.who = p /\ ret'.err = "ok"
          /\ (/\ proc[p].pc \in {"cl_now", "cl_del"} /\ proc'[p].pc = "idle"
              /\ ret.op = "Cleanup" /\ ret.who # p
              /\ \A q \in Procs : proc'[q].pc = "idle"
              /\ calls = hist.nCreated + 2) =>
               ret.cnt + ret'.cnt = Cardinality(hist'.removed)
    ]_vars

\* two sweeps that both listed the same two expired sessions and removed
\* one each, the later one skipping the entry the other had removed
C35_Witness ==
  /\ ret.op = "Cleanup" /\ ret.cnt = 1 /\ ret.err = "ok"
  /\ Cardinality({s \in ret.snap : IsExpired(s, ret.t)}) = 2
  /\ hist.deleted = {} /\ Cardinality(hist.removed) = 2
  /\ calls = hist.nCreated + 2
  /\ \A q \in Procs : proc[q].pc = "idle"

---------------------------------------------------------------------------
\* a step taken by caller p inside a RefreshSession call
RefreshCallStep(p) ==
  \/ proc[p].op = "Refresh" /\ proc'[p] # proc[p]
  \/ proc[p].pc = "idle" /\ proc'[p].op = "Refresh"
  \/ /\ proc[p].pc = "idle" /\ proc'[p].pc = "idle" /\ calls' = calls + 1
     /\ ret'.op = "Refresh" /\ ret'.who = p

\* the id that call is about
RefreshTarget(p) ==
  IF proc[p].pc # "idle" THEN proc[p].id
  ELSE IF proc'[p].pc # "idle" THEN proc'[p].id ELSE ret'.id

\* C36: every step of a RefreshSession call leaves every other stored
\* session as it was, adds no entry to the store, keeps the id, createdAt
\* and clientInfo of the targeted session, removes the targeted entry only
\* when it returns SESSION_EXPIRED, and changes nothing in the store when
\* it returns SESSION_INVALID or SESSION_NOT_FOUND.
C36_RefreshFrame ==
  [][\A p \in Procs : RefreshCallStep(p) =>
       LET target == RefreshTarget(p)
       IN /\ \A id \in ((DOMAIN sessions) \cup (DOMAIN sessions')) \ {target} :
               /\ id \in DOMAIN sessions /\ id \in DOMAIN sessions'
               /\ heap'[sessions'[id]] = heap[sessions[id]]
          /\ target \in DOMAIN sessions' =>
               /\ target \in DOMAIN sessions
               /\ heap'[sessions'[target]].ID = heap[sessions[target]].ID
               /\ heap'[sessions'[target]].CreatedAt
                    = heap[sessions[target]].CreatedAt
               /\ heap'[sessions'[target]].ClientInfo
                    = heap[sessions[target]].ClientInfo
          /\ (target \in DOMAIN sessions /\ target \notin DOMAIN sessions') =>
               proc'[p].pc = "idle" /\ ret'.err = ErrSessionExpired
          /\ (proc'[p].pc = "idle"
               /\ ret'.err \in {ErrSessionInvalid, ErrSessionNotFound}) =>
               /\ DOMAIN sessions' = DOMAIN sessions
               /\ \A id \in DOMAIN sessions :
                    heap'[sessions'[id]] = heap[sessions[id]]
    ]_vars

---------------------------------------------------------------------------
\* the stored sessions that are not expired at time t
ActiveAt(t) == {id \in DOMAIN sessions : ~IsExpired(Stored(id), t)}

\* C37: GetActiveSessionCount returns the number of stored sessions that
\* are not expired when it is called and leaves the store as it is;
\* GetSessionStats reports as active_sessions the listed sessions that are
\* not expired at its clock reading.
C37_ActiveCount ==
  [][\A p \in Procs :
       /\ (/\ proc[p].pc = "idle" /\ calls' = calls + 1
           /\ ret'.op = "GetActiveSessionCount" /\ ret'.who = p) =>
            /\ ret'.cnt = Cardinality(ActiveAt(now))
            /\ sessions' = sessions
            /\ \A id \in DOMAIN sessions :
                 heap'[sessions'[id]] = heap[sessions[id]]
       /\ (proc[p].pc = "stats_now" /\ proc'[p].pc = "stats_store") =>
            /\ proc'[p].cnt = Cardinality({x \in proc[p].snap :
                                             ~IsExpired(x, now)})
            /\ sessions' = sessions
       /\ (proc[p].pc = "stats_store" /\ proc'[p].pc = "idle") =>
            /\ ret'.cnt = proc[p].cnt /\ ret'.storeTotal = StoreCount
            /\ sessions' = sessions
    ]_vars

---------------------------------------------------------------------------
\* C38: a POSTed message with a method and no id (a notification) is
\* answered with no envelope: neither a JSON body nor an SSE data event
\* carrying a result or an error is written for it.
C38_NotificationUnanswered ==
  (IsRpcPost(mcp.req) /\ mcp.req.method # "" /\ mcp.req.id = NoID) =>
    mcp.resp.kind \notin {"json", "sse"}

---------------------------------------------------------------------------
\* a session record no refresh has half-written
WholeSession(s) ==
  /\ s.ExpiresAt = s.LastAccess + config.SessionTimeout
  /\ s.CreatedAt <= s.LastAccess

\* C39: every session a reader observes is whole: the session
\* ValidateSession returned, the session a Store.Get has just handed to its
\* caller, and every session of a Store.List snapshot satisfy
\* expiresAt = lastAccessAt + timeout and createdAt <= lastAccessAt.
C39_NoTornRead ==
  /\ (ret.op = "Validate" /\ ret.err = "ok") => WholeSession(ret.out)
  /\ \A p \in Procs :
       /\ proc[p].pc = "val_exp" => WholeSession(proc[p].pre)
       /\ \A s \in proc[p].snap : WholeSession(s)

=============================================================================
